---- MODULE Spec2Model ----
(***************************************************************************)
(* Model of internal/service/pipes/source_parameters.go: the schema of the *)
(* source_parameters block of a pipe and the expand/flatten mappers that   *)
(* convert between configuration nodes (map[string]interface{}) and the    *)
(* typed API objects (types.PipeSourceParameters and its members).         *)
(*                                                                         *)
(* Go values are modelled with their dynamic type:                         *)
(*   - a string is a sequence of one-character strings ("" is <<>>);       *)
(*   - an interface{} value is a record tagged by its dynamic type in t;   *)
(*   - a Go int (64 bit) is wrap * 2^32 + low with low in the int32 range, *)
(*     so that int32(v) is exactly v.low;                                  *)
(*   - a pointer field of a typed object is Nil or Ptr(value).             *)
(***************************************************************************)
EXTENDS Integers, Sequences, FiniteSets, TLC

VARIABLES pc, tfMap, apiObject, tfState, diags, call

vars == <<pc, tfMap, apiObject, tfState, diags, call>>

-----------------------------------------------------------------------------
(* Go values *)

\* the nil interface value / a nil pointer
Nil == [t |-> "nil"]

\* a nil map[string]interface{} (a typed nil: not equal to the nil interface)
NilMap == [t |-> "nilmap"]

\* a nil []interface{} (a typed nil of length 0)
NilList == [t |-> "nillist"]

\* the outcome of a failed type assertion (run-time panic)
Panic == [t |-> "panic"]

GoInt(k, n) == [t |-> "int", wrap |-> k, low |-> n]

GoInt32(n) == [t |-> "int32", low |-> n]

GoString(s) == [t |-> "string", s |-> s]

\* a value of a named string type of the SDK (an enumeration)
GoEnum(ty, s) == [t |-> ty, s |-> s]

GoList(elems) == [t |-> "list", e |-> elems]

GoMap(f) == [t |-> "map", m |-> f]

Ptr(v) == [ptr |-> v]

EmptyFcn == [k \in {} |-> Nil]

\* tfMap[k]: the nil interface when the key is missing or the map is nil
Lookup(m, k) == IF m.t = "map" /\ k \in DOMAIN m.m THEN m.m[k] ELSE Nil

\* v, ok := x.([]interface{}): the elements, <<>> when the assertion fails
ListElems(v) == IF v.t = "list" THEN v.e ELSE <<>>

\* ok && len(v) > 0 && v[0] != nil
HasBlockMutant(m, k) ==
    LET v == ListElems(Lookup(m, k)) IN Len(v) > 0

HasBlock(m, k) ==
    LET v == ListElems(Lookup(m, k)) IN Len(v) > 0 /\ v[1] # Nil

\* v[0].(map[string]interface{})
Block0Mutant(m, k) == ListElems(Lookup(m, k))[Len(ListElems(Lookup(m, k)))]

Block0(m, k) == ListElems(Lookup(m, k))[1]

\* if v, ok := tfMap[k].(int); ok && v != 0 { field = aws.Int32(int32(v)) }
expandInt32RetryMutant(m, k) ==
    LET v == Lookup(m, k) IN
    IF v.t = "int" /\ (k = "maximum_retry_attempts" \/ ~(v.wrap = 0 /\ v.low = 0))
    THEN Ptr(v.low) ELSE Nil

expandInt32Mutant(m, k) ==
    LET v == Lookup(m, k) IN
    IF v.t = "int" THEN Ptr(v.low) ELSE Nil

expandInt32(m, k) ==
    LET v == Lookup(m, k) IN
    IF v.t = "int" /\ ~(v.wrap = 0 /\ v.low = 0) THEN Ptr(v.low) ELSE Nil

\* if v, ok := tfMap[k].(string); ok && v != "" { field = aws.String(v) }
expandStringPtr(m, k) ==
    LET v == Lookup(m, k) IN
    IF v.t = "string" /\ v.s # <<>> THEN Ptr(v.s) ELSE Nil

\* if v, ok := tfMap[k].(string); ok && v != "" { field = types.T(v) }
expandStringValue(m, k) ==
    LET v == Lookup(m, k) IN
    IF v.t = "string" /\ v.s # <<>> THEN v.s ELSE <<>>

-----------------------------------------------------------------------------
(* time.Parse(time.RFC3339, v) and Time.Format(time.RFC3339) *)

Digits == {"0", "1", "2", "3", "4", "5", "6", "7", "8", "9"}

DigitVal(c) ==
    CASE c = "0" -> 0 [] c = "1" -> 1 [] c = "2" -> 2 [] c = "3" -> 3
      [] c = "4" -> 4 [] c = "5" -> 5 [] c = "6" -> 6 [] c = "7" -> 7
      [] c = "8" -> 8 [] c = "9" -> 9

DigitChar(n) ==
    CASE n = 0 -> "0" [] n = 1 -> "1" [] n = 2 -> "2" [] n = 3 -> "3"
      [] n = 4 -> "4" [] n = 5 -> "5" [] n = 6 -> "6" [] n = 7 -> "7"
      [] n = 8 -> "8" [] n = 9 -> "9"

AllDigits(s) == \A i \in 1..Len(s) : s[i] \in Digits

RECURSIVE Atoi(_)
Atoi(s) == IF s = <<>> THEN 0
           ELSE 10 * Atoi(SubSeq(s, 1, Len(s) - 1)) + DigitVal(s[Len(s)])

Pad2(n) == <<DigitChar((n \div 10) % 10), DigitChar(n % 10)>>

Pad4(n) == Pad2(n \div 100) \o Pad2(n % 100)

IsLeap(y) == y % 4 = 0 /\ (y % 100 # 0 \/ y % 400 = 0)

DaysIn(mo, y) ==
    IF mo = 2 THEN (IF IsLeap(y) THEN 29 ELSE 28)
    ELSE IF mo \in {4, 6, 9, 11} THEN 30 ELSE 31

\* the zero time.Time: January 1, year 1, 00:00:00 UTC
ZeroTime == [year |-> 1, month |-> 1, day |-> 1, hour |-> 0, min |-> 0,
             sec |-> 0, nsec |-> 0, offset |-> 0]

\* the digits of a fractional second, "" when the text has no fraction
FractionDigits(rest) ==
    IF Len(rest) > 0 /\ rest[1] = "."
    THEN LET n == CHOOSE n \in 0..(Len(rest) - 1) :
                     /\ \A i \in 2..(n + 1) : rest[i] \in Digits
                     /\ (n + 2 > Len(rest) \/ rest[n + 2] \notin Digits)
         IN  SubSeq(rest, 2, n + 1)
    ELSE <<>>

\* nanoseconds of a fraction: the first nine digits, right-padded with zeros
RECURSIVE Nanos(_, _)
Nanos(ds, width) ==
    IF width = 0 THEN 0
    ELSE (IF ds = <<>> THEN 0 ELSE DigitVal(ds[1])) * (10 ^ (width - 1))
         + Nanos(IF ds = <<>> THEN <<>> ELSE Tail(ds), width - 1)

\* the text after the seconds: the fraction (if any) and the zone
ZoneText(rest) ==
    LET fd == FractionDigits(rest) IN
    IF Len(rest) > 0 /\ rest[1] = "." THEN SubSeq(rest, Len(fd) + 2, Len(rest))
    ELSE rest

ZoneOK(z) ==
    \/ z = <<"Z">>
    \/ /\ Len(z) = 6
       /\ z[1] \in {"+", "-"}
       /\ z[2] \in Digits /\ z[3] \in Digits /\ z[4] = ":"
       /\ z[5] \in Digits /\ z[6] \in Digits
       /\ Atoi(SubSeq(z, 2, 3)) <= 23
       /\ Atoi(SubSeq(z, 5, 6)) <= 59

\* the zone offset in minutes east of UTC
ZoneOffset(z) ==
    IF z = <<"Z">> THEN 0
    ELSE (IF z[1] = "-" THEN -1 ELSE 1)
         * (60 * Atoi(SubSeq(z, 2, 3)) + Atoi(SubSeq(z, 5, 6)))

\* err == nil for time.Parse(time.RFC3339, s)
ParsesRFC3339(s) ==
    /\ Len(s) >= 20
    /\ AllDigits(SubSeq(s, 1, 4)) /\ s[5] = "-"
    /\ AllDigits(SubSeq(s, 6, 7)) /\ s[8] = "-"
    /\ AllDigits(SubSeq(s, 9, 10)) /\ s[11] = "T"
    /\ AllDigits(SubSeq(s, 12, 13)) /\ s[14] = ":"
    /\ AllDigits(SubSeq(s, 15, 16)) /\ s[17] = ":"
    /\ AllDigits(SubSeq(s, 18, 19))
    /\ Atoi(SubSeq(s, 6, 7)) \in 1..12
    /\ Atoi(SubSeq(s, 9, 10)) \in 1..DaysIn(Atoi(SubSeq(s, 6, 7)), Atoi(SubSeq(s, 1, 4)))
    /\ Atoi(SubSeq(s, 12, 13)) <= 23
    /\ Atoi(SubSeq(s, 15, 16)) <= 59
    /\ Atoi(SubSeq(s, 18, 19)) <= 59
    /\ LET rest == SubSeq(s, 20, Len(s)) IN
       /\ (rest[1] = "." => FractionDigits(rest) # <<>>)
       /\ ZoneOK(ZoneText(rest))

\* v, _ := time.Parse(time.RFC3339, s): the zero Time when parsing fails
timeParse(s) ==
    IF ParsesRFC3339(s)
    THEN LET rest == SubSeq(s, 20, Len(s)) IN
         [year   |-> Atoi(SubSeq(s, 1, 4)),
          month  |-> Atoi(SubSeq(s, 6, 7)),
          day    |-> Atoi(SubSeq(s, 9, 10)),
          hour   |-> Atoi(SubSeq(s, 12, 13)),
          min    |-> Atoi(SubSeq(s, 15, 16)),
          sec    |-> Atoi(SubSeq(s, 18, 19)),
          nsec   |-> Nanos(FractionDigits(rest), 9),
          offset |-> ZoneOffset(ZoneText(rest))]
    ELSE ZeroTime

Abs(n) == IF n < 0 THEN -n ELSE n

\* t.Format(time.RFC3339): whole seconds, "Z" for a zero offset
timeFormat(tm) ==
    Pad4(tm.year) \o <<"-">> \o Pad2(tm.month) \o <<"-">> \o Pad2(tm.day)
    \o <<"T">> \o Pad2(tm.hour) \o <<":">> \o Pad2(tm.min) \o <<":">> \o Pad2(tm.sec)
    \o (IF tm.offset = 0 THEN <<"Z">>
        ELSE <<IF tm.offset < 0 THEN "-" ELSE "+">>
             \o Pad2(Abs(tm.offset) \div 60) \o <<":">> \o Pad2(Abs(tm.offset) % 60))

-----------------------------------------------------------------------------
(* expand: configuration node -> typed API object *)

expandDeadLetterConfig(m) ==
    IF m = NilMap THEN Nil
    ELSE [Arn |-> expandStringPtr(m, "arn")]

expandFilter(m) ==
    IF m = NilMap THEN Nil
    ELSE [Pattern |-> expandStringPtr(m, "pattern")]

\* the loop of expandFilters: elements that are not maps, or nil maps, are skipped
RECURSIVE expandFiltersLoop(_)
expandFiltersLoop(l) ==
    IF l = <<>> THEN <<>>
    ELSE IF Head(l).t \notin {"map", "nilmap"} \/ expandFilter(Head(l)) = Nil
         THEN expandFiltersLoop(Tail(l))
         ELSE <<expandFilter(Head(l))>> \o expandFiltersLoop(Tail(l))

\* a []types.Filter: Nil is the nil slice, otherwise [elems |-> ...]
expandFiltersMutant(l) ==
    IF Len(l) = 0 \/ expandFiltersLoop(l) = <<>> THEN Nil
    ELSE [elems |-> [i \in 1..Len(expandFiltersLoop(l)) |->
                        expandFiltersLoop(l)[Len(expandFiltersLoop(l)) + 1 - i]]]

expandFilters(l) ==
    IF Len(l) = 0 \/ expandFiltersLoop(l) = <<>> THEN Nil
    ELSE [elems |-> expandFiltersLoop(l)]

expandFilterCriteria(m) ==
    IF m = NilMap THEN Nil
    ELSE [Filters |-> IF Len(ListElems(Lookup(m, "filter"))) > 0
                      THEN expandFilters(ListElems(Lookup(m, "filter")))
                      ELSE Nil]

expandMQBrokerAccessCredentialsMemberBasicAuth(m) ==
    IF m = NilMap THEN Nil
    ELSE [member |-> "MQBrokerAccessCredentialsMemberBasicAuth",
          Value  |-> expandStringValue(m, "basic_auth")]

expandPipeSourceActiveMQBrokerParameters(m) ==
    IF m = NilMap THEN Nil
    ELSE [BatchSize   |-> expandInt32(m, "batch_size"),
          Credentials |-> IF HasBlock(m, "credentials")
                          THEN expandMQBrokerAccessCredentialsMemberBasicAuth(Block0(m, "credentials"))
                          ELSE Nil,
          MaximumBatchingWindowInSeconds |-> expandInt32(m, "maximum_batching_window_in_seconds"),
          QueueName   |-> expandStringPtr(m, "queue_name")]

expandPipeSourceDynamoDBStreamParameters(m) ==
    IF m = NilMap THEN Nil
    ELSE [BatchSize        |-> expandInt32(m, "batch_size"),
          DeadLetterConfig |-> IF HasBlock(m, "dead_letter_config")
                               THEN expandDeadLetterConfig(Block0(m, "dead_letter_config"))
                               ELSE Nil,
          MaximumBatchingWindowInSeconds |-> expandInt32(m, "maximum_batching_window_in_seconds"),
          MaximumRecordAgeInSeconds |-> expandInt32(m, "maximum_record_age_in_seconds"),
          MaximumRetryAttempts      |-> expandInt32(m, "maximum_retry_attempts"),
          OnPartialBatchItemFailure |-> expandStringValue(m, "on_partial_batch_item_failure"),
          ParallelizationFactor     |-> expandInt32(m, "parallelization_factor"),
          StartingPosition          |-> expandStringValue(m, "starting_position")]

\* if v, ok := tfMap[k].(string); ok && v != "" {
\*     v, _ := time.Parse(time.RFC3339, v); field = aws.Time(v) }
expandTimeMutant(m, k) ==
    LET v == Lookup(m, k) IN
    IF v.t = "string" /\ v.s # <<>> /\ ParsesRFC3339(v.s) THEN Ptr(timeParse(v.s)) ELSE Nil

expandTime(m, k) ==
    LET v == Lookup(m, k) IN
    IF v.t = "string" /\ v.s # <<>> THEN Ptr(timeParse(v.s)) ELSE Nil

expandPipeSourceKinesisStreamParameters(m) ==
    IF m = NilMap THEN Nil
    ELSE [BatchSize        |-> expandInt32(m, "batch_size"),
          DeadLetterConfig |-> IF HasBlock(m, "dead_letter_config")
                               THEN expandDeadLetterConfig(Block0(m, "dead_letter_config"))
                               ELSE Nil,
          MaximumBatchingWindowInSeconds |-> expandInt32(m, "maximum_batching_window_in_seconds"),
          MaximumRecordAgeInSeconds |-> expandInt32(m, "maximum_record_age_in_seconds"),
          MaximumRetryAttempts      |-> expandInt32(m, "maximum_retry_attempts"),
          OnPartialBatchItemFailure |-> expandStringValue(m, "on_partial_batch_item_failure"),
          ParallelizationFactor     |-> expandInt32(m, "parallelization_factor"),
          StartingPosition          |-> expandStringValue(m, "starting_position"),
          StartingPositionTimestamp |-> expandTime(m, "starting_position_timestamp")]

\* the SASL/SCRAM-512 credential is tried before the client certificate
expandMSKAccessCredentialsMutant(m) ==
    IF m = NilMap THEN Nil
    ELSE IF expandStringValue(m, "sasl_scram_512_auth") # <<>>
    THEN [member |-> "MSKAccessCredentialsMemberSaslScram512Auth",
          Value  |-> expandStringValue(m, "sasl_scram_512_auth")]
    ELSE IF expandStringValue(m, "client_certificate_tls_auth") # <<>>
    THEN [member |-> "MSKAccessCredentialsMemberClientCertificateTlsAuth",
          Value  |-> expandStringValue(m, "client_certificate_tls_auth")]
    ELSE Nil

expandMSKAccessCredentials(m) ==
    IF m = NilMap THEN Nil
    ELSE IF expandStringValue(m, "client_certificate_tls_auth") # <<>>
    THEN [member |-> "MSKAccessCredentialsMemberClientCertificateTlsAuth",
          Value  |-> expandStringValue(m, "client_certificate_tls_auth")]
    ELSE IF expandStringValue(m, "sasl_scram_512_auth") # <<>>
    THEN [member |-> "MSKAccessCredentialsMemberSaslScram512Auth",
          Value  |-> expandStringValue(m, "sasl_scram_512_auth")]
    ELSE Nil

expandPipeSourceManagedStreamingKafkaParameters(m) ==
    IF m = NilMap THEN Nil
    ELSE [BatchSize       |-> expandInt32(m, "batch_size"),
          ConsumerGroupID |-> expandStringPtr(m, "consumer_group_id"),
          Credentials     |-> IF HasBlock(m, "credentials")
                              THEN expandMSKAccessCredentials(Block0(m, "credentials"))
                              ELSE Nil,
          MaximumBatchingWindowInSeconds |-> expandInt32(m, "maximum_batching_window_in_seconds"),
          StartingPosition |-> expandStringValue(m, "starting_position"),
          TopicName        |-> expandStringPtr(m, "topic_name")]

expandPipeSourceSqsQueueParameters(m) ==
    IF m = NilMap THEN Nil
    ELSE [BatchSize |-> expandInt32(m, "batch_size"),
          MaximumBatchingWindowInSeconds |-> expandInt32(m, "maximum_batching_window_in_seconds")]

\* types.PipeSourceParameters has a field per source variant; the two fields
\* after the TODO of the source are never assigned and keep their zero value
expandPipeSourceParameters(m) ==
    IF m = NilMap THEN Nil
    ELSE [ActiveMQBrokerParameters |->
              IF HasBlock(m, "activemq_broker_parameters")
              THEN expandPipeSourceActiveMQBrokerParameters(Block0(m, "activemq_broker_parameters"))
              ELSE Nil,
          DynamoDBStreamParameters |->
              IF HasBlock(m, "dynamodb_stream_parameters")
              THEN expandPipeSourceDynamoDBStreamParameters(Block0(m, "dynamodb_stream_parameters"))
              ELSE Nil,
          FilterCriteria |->
              IF HasBlock(m, "filter_criteria")
              THEN expandFilterCriteria(Block0(m, "filter_criteria"))
              ELSE Nil,
          KinesisStreamParameters |->
              IF HasBlock(m, "kinesis_stream_parameters")
              THEN expandPipeSourceKinesisStreamParameters(Block0(m, "kinesis_stream_parameters"))
              ELSE Nil,
          ManagedStreamingKafkaParameters |->
              IF HasBlock(m, "managed_streaming_kafka_parameters")
              THEN expandPipeSourceManagedStreamingKafkaParameters(Block0(m, "managed_streaming_kafka_parameters"))
              ELSE Nil,
          RabbitMQBrokerParameters   |-> Nil,
          SelfManagedKafkaParameters |-> Nil,
          SqsQueueParameters |->
              IF HasBlock(m, "sqs_queue_parameters")
              THEN expandPipeSourceSqsQueueParameters(Block0(m, "sqs_queue_parameters"))
              ELSE Nil]

\* the body is a TODO: a non-nil map yields an update object with no field set
expandUpdatePipeSourceParametersMutant(m) == expandPipeSourceParameters(m)

expandUpdatePipeSourceParameters(m) ==
    IF m = NilMap THEN Nil
    ELSE [ActiveMQBrokerParameters |-> Nil, DynamoDBStreamParameters |-> Nil,
          FilterCriteria |-> Nil, KinesisStreamParameters |-> Nil,
          ManagedStreamingKafkaParameters |-> Nil, RabbitMQBrokerParameters |-> Nil,
          SelfManagedKafkaParameters |-> Nil, SqsQueueParameters |-> Nil]

-----------------------------------------------------------------------------
(* flatten: typed API object -> configuration node *)

\* tfMap[k] = v, executed only when cond holds
Entry(cond, k, v) == IF cond THEN k :> v ELSE EmptyFcn

\* if v := apiObject.F; v != nil { tfMap[k] = aws.ToInt32(v) }
flattenInt32(p, k) == Entry(p # Nil, k, GoInt32(p.ptr))

\* if v := apiObject.F; v != nil { tfMap[k] = aws.ToString(v) }
flattenStringPtr(p, k) == Entry(p # Nil, k, GoString(p.ptr))

\* if v := apiObject.F; v != "" { tfMap[k] = v }: v keeps its named type
flattenEnum(v, k, ty) == Entry(v # <<>>, k, GoEnum(ty, v))

flattenDeadLetterConfig(a) ==
    IF a = Nil THEN NilMap
    ELSE GoMap(flattenStringPtr(a.Arn, "arn"))

flattenFilter(a) == GoMap(flattenStringPtr(a.Pattern, "pattern"))

\* a nil or empty slice flattens to the nil list
flattenFilters(a) ==
    IF a = Nil \/ Len(a.elems) = 0 THEN NilList
    ELSE GoList([i \in 1..Len(a.elems) |-> flattenFilter(a.elems[i])])

flattenFilterCriteriaMutant(a) ==
    IF a = Nil THEN GoMap(EmptyFcn)
    ELSE GoMap(Entry(a.Filters # Nil, "filter", flattenFilters(a.Filters)))

flattenFilterCriteria(a) ==
    IF a = Nil THEN NilMap
    ELSE GoMap(Entry(a.Filters # Nil, "filter", flattenFilters(a.Filters)))

flattenMQBrokerAccessCredentialsMemberBasicAuth(a) ==
    IF a = Nil THEN NilMap
    ELSE GoMap(Entry(a.Value # <<>>, "basic_auth", GoString(a.Value)))

\* v.(*types.MQBrokerAccessCredentialsMemberBasicAuth) panics for any other member
flattenPipeSourceActiveMQBrokerParameters(a) ==
    IF a = Nil THEN NilMap
    ELSE IF a.Credentials # Nil
            /\ a.Credentials.member # "MQBrokerAccessCredentialsMemberBasicAuth"
    THEN Panic
    ELSE GoMap(flattenInt32(a.BatchSize, "batch_size")
            @@ Entry(a.Credentials # Nil, "credentials",
                     GoList(<<flattenMQBrokerAccessCredentialsMemberBasicAuth(a.Credentials)>>))
            @@ flattenInt32(a.MaximumBatchingWindowInSeconds, "maximum_batching_window_in_seconds")
            @@ flattenStringPtr(a.QueueName, "queue_name"))

flattenPipeSourceDynamoDBStreamParameters(a) ==
    IF a = Nil THEN NilMap
    ELSE GoMap(flattenInt32(a.BatchSize, "batch_size")
            @@ Entry(a.DeadLetterConfig # Nil, "dead_letter_config",
                     GoList(<<flattenDeadLetterConfig(a.DeadLetterConfig)>>))
            @@ flattenInt32(a.MaximumBatchingWindowInSeconds, "maximum_batching_window_in_seconds")
            @@ flattenInt32(a.MaximumRecordAgeInSeconds, "maximum_record_age_in_seconds")
            @@ flattenInt32(a.MaximumRetryAttempts, "maximum_retry_attempts")
            @@ flattenEnum(a.OnPartialBatchItemFailure, "on_partial_batch_item_failure",
                           "types.OnPartialBatchItemFailureStreams")
            @@ flattenInt32(a.ParallelizationFactor, "parallelization_factor")
            @@ flattenEnum(a.StartingPosition, "starting_position",
                           "types.DynamoDBStreamStartPosition"))

flattenPipeSourceKinesisStreamParameters(a) ==
    IF a = Nil THEN NilMap
    ELSE GoMap(flattenInt32(a.BatchSize, "batch_size")
            @@ Entry(a.DeadLetterConfig # Nil, "dead_letter_config",
                     GoList(<<flattenDeadLetterConfig(a.DeadLetterConfig)>>))
            @@ flattenInt32(a.MaximumBatchingWindowInSeconds, "maximum_batching_window_in_seconds")
            @@ flattenInt32(a.MaximumRecordAgeInSeconds, "maximum_record_age_in_seconds")
            @@ flattenInt32(a.MaximumRetryAttempts, "maximum_retry_attempts")
            @@ flattenEnum(a.OnPartialBatchItemFailure, "on_partial_batch_item_failure",
                           "types.OnPartialBatchItemFailureStreams")
            @@ flattenInt32(a.ParallelizationFactor, "parallelization_factor")
            @@ flattenEnum(a.StartingPosition, "starting_position",
                           "types.KinesisStreamStartPosition")
            @@ Entry(a.StartingPositionTimestamp # Nil, "starting_position_timestamp",
                     GoString(timeFormat(a.StartingPositionTimestamp.ptr))))

\* a member that is neither of the two known ones flattens to an empty map
flattenMSKAccessCredentials(a) ==
    IF a = Nil THEN NilMap
    ELSE GoMap(Entry(a.member = "MSKAccessCredentialsMemberClientCertificateTlsAuth"
                     /\ a.Value # <<>>, "client_certificate_tls_auth", GoString(a.Value))
            @@ Entry(a.member = "MSKAccessCredentialsMemberSaslScram512Auth"
                     /\ a.Value # <<>>, "sasl_scram_512_auth", GoString(a.Value)))

flattenPipeSourceManagedStreamingKafkaParameters(a) ==
    IF a = Nil THEN NilMap
    ELSE GoMap(flattenInt32(a.BatchSize, "batch_size")
            @@ flattenStringPtr(a.ConsumerGroupID, "consumer_group_id")
            @@ Entry(a.Credentials # Nil, "credentials",
                     GoList(<<flattenMSKAccessCredentials(a.Credentials)>>))
            @@ flattenInt32(a.MaximumBatchingWindowInSeconds, "maximum_batching_window_in_seconds")
            @@ flattenEnum(a.StartingPosition, "starting_position", "types.MSKStartPosition")
            @@ flattenStringPtr(a.TopicName, "topic_name"))

flattenPipeSourceSqsQueueParameters(a) ==
    IF a = Nil THEN NilMap
    ELSE GoMap(flattenInt32(a.BatchSize, "batch_size")
            @@ flattenInt32(a.MaximumBatchingWindowInSeconds, "maximum_batching_window_in_seconds"))

\* the two variants after the TODO of the source are never emitted; a panic of
\* a nested flatten propagates to the caller
flattenPipeSourceParameters(a) ==
    IF a = Nil THEN NilMap
    ELSE IF a.ActiveMQBrokerParameters # Nil
            /\ flattenPipeSourceActiveMQBrokerParameters(a.ActiveMQBrokerParameters) = Panic
    THEN Panic
    ELSE GoMap(Entry(a.ActiveMQBrokerParameters # Nil, "activemq_broker_parameters",
                     GoList(<<flattenPipeSourceActiveMQBrokerParameters(a.ActiveMQBrokerParameters)>>))
            @@ Entry(a.DynamoDBStreamParameters # Nil, "dynamodb_stream_parameters",
                     GoList(<<flattenPipeSourceDynamoDBStreamParameters(a.DynamoDBStreamParameters)>>))
            @@ Entry(a.FilterCriteria # Nil, "filter_criteria",
                     GoList(<<flattenFilterCriteria(a.FilterCriteria)>>))
            @@ Entry(a.KinesisStreamParameters # Nil, "kinesis_stream_parameters",
                     GoList(<<flattenPipeSourceKinesisStreamParameters(a.KinesisStreamParameters)>>))
            @@ Entry(a.ManagedStreamingKafkaParameters # Nil, "managed_streaming_kafka_parameters",
                     GoList(<<flattenPipeSourceManagedStreamingKafkaParameters(a.ManagedStreamingKafkaParameters)>>))
            @@ Entry(a.SqsQueueParameters # Nil, "sqs_queue_parameters",
                     GoList(<<flattenPipeSourceSqsQueueParameters(a.SqsQueueParameters)>>)))

-----------------------------------------------------------------------------
(* the schema declared by sourceParametersSchema *)

\* the keys of the source_parameters block that name a source variant
VariantKeys == {"activemq_broker_parameters", "dynamodb_stream_parameters",
                "kinesis_stream_parameters", "managed_streaming_kafka_parameters",
                "rabbit_mq_broker", "self_managed_kafka", "sqs_queue_parameters"}

\* every key of the source_parameters block
TopKeys == VariantKeys \cup {"filter_criteria"}

\* an attribute address "source_parameters.0.<key>", as its segments
Addr(key) == <<"source_parameters", "0", key>>

\* the ConflictsWith list of each key, as written in the schema
ConflictsWithStreamsMutant ==
    [k \in TopKeys |->
       IF k = "filter_criteria" THEN {}
       ELSE IF k = "dynamodb_stream_parameters"
       THEN {Addr(o) : o \in VariantKeys \ {k, "kinesis_stream_parameters"}}
       ELSE IF k = "kinesis_stream_parameters"
       THEN {Addr(o) : o \in VariantKeys \ {k, "dynamodb_stream_parameters"}}
       ELSE {Addr(o) : o \in VariantKeys \ {k}}]

ConflictsWithMutant ==
    [k \in TopKeys |->
       IF k = "filter_criteria" THEN {}
       ELSE IF k = "sqs_queue_parameters"
       THEN {Addr(o) : o \in VariantKeys \ {k, "rabbit_mq_broker"}}
       ELSE IF k = "rabbit_mq_broker"
       THEN {Addr(o) : o \in VariantKeys \ {k, "sqs_queue_parameters"}}
       ELSE {Addr(o) : o \in VariantKeys \ {k}}]

ConflictsWith ==
    [activemq_broker_parameters |->
        {Addr("dynamodb_stream_parameters"), Addr("kinesis_stream_parameters"),
         Addr("managed_streaming_kafka_parameters"), Addr("rabbit_mq_broker"),
         Addr("self_managed_kafka"), Addr("sqs_queue_parameters")},
     dynamodb_stream_parameters |->
        {Addr("activemq_broker_parameters"), Addr("kinesis_stream_parameters"),
         Addr("managed_streaming_kafka_parameters"), Addr("rabbit_mq_broker"),
         Addr("self_managed_kafka"), Addr("sqs_queue_parameters")},
     filter_criteria |-> {},
     kinesis_stream_parameters |->
        {Addr("activemq_broker_parameters"), Addr("dynamodb_stream_parameters"),
         Addr("managed_streaming_kafka_parameters"), Addr("rabbit_mq_broker"),
         Addr("self_managed_kafka"), Addr("sqs_queue_parameters")},
     managed_streaming_kafka_parameters |->
        {Addr("activemq_broker_parameters"), Addr("dynamodb_stream_parameters"),
         Addr("kinesis_stream_parameters"), Addr("rabbit_mq_broker"),
         Addr("self_managed_kafka"), Addr("sqs_queue_parameters")},
     rabbit_mq_broker |->
        {Addr("activemq_broker_parameters"), Addr("dynamodb_stream_parameters"),
         Addr("kinesis_stream_parameters"), Addr("managed_streaming_kafka_parameters"),
         Addr("self_managed_kafka"), Addr("sqs_queue_parameters")},
     self_managed_kafka |->
        {Addr("activemq_broker_parameters"), Addr("dynamodb_stream_parameters"),
         Addr("kinesis_stream_parameters"), Addr("managed_streaming_kafka_parameters"),
         Addr("rabbit_mq_broker"), Addr("sqs_queue_parameters")},
     sqs_queue_parameters |->
        {Addr("activemq_broker_parameters"), Addr("dynamodb_stream_parameters"),
         Addr("kinesis_stream_parameters"), Addr("managed_streaming_kafka_parameters"),
         Addr("rabbit_mq_broker"), Addr("self_managed_kafka")}]

\* MaxItems of each key of the source_parameters block
TopMaxItems == [k \in TopKeys |-> 1]

\* the nested list blocks of each block, all declared with MaxItems: 1
NestedBlocks ==
    [activemq_broker_parameters |-> {"credentials"},
     dynamodb_stream_parameters |-> {"dead_letter_config"},
     filter_criteria |-> {},
     kinesis_stream_parameters |-> {"dead_letter_config"},
     managed_streaming_kafka_parameters |-> {"credentials"},
     rabbit_mq_broker |-> {"credentials"},
     self_managed_kafka |-> {"credentials", "vpc"},
     sqs_queue_parameters |-> {}]

\* the attributes declared Required: true in each block
Required ==
    [activemq_broker_parameters |-> {"credentials", "queue_name"},
     dynamodb_stream_parameters |-> {"starting_position"},
     filter_criteria |-> {"filter"},
     kinesis_stream_parameters |-> {"starting_position"},
     managed_streaming_kafka_parameters |-> {"topic_name"},
     rabbit_mq_broker |-> {"credentials", "queue"},
     self_managed_kafka |-> {"topic"},
     sqs_queue_parameters |-> {}]

\* the attributes declared Required: true in a nested block
NestedRequired ==
    [activemq_broker_parameters |-> [credentials |-> {"basic_auth"}],
     dynamodb_stream_parameters |-> [dead_letter_config |-> {}],
     filter_criteria |-> <<>>,
     kinesis_stream_parameters |-> [dead_letter_config |-> {}],
     managed_streaming_kafka_parameters |-> [credentials |-> {}],
     rabbit_mq_broker |-> [credentials |-> {"basic_auth"}],
     self_managed_kafka |-> [credentials |-> {"basic_auth"}, vpc |-> {}],
     sqs_queue_parameters |-> <<>>]

\* the integer validators: validation.IntBetween(min, max) is {<<min, max>>},
\* validation.Any(IntInSlice({-1}), IntBetween(60, 604800)) has two ranges
IntValidators ==
    [activemq_broker_parameters |->
        [batch_size |-> {<<1, 10000>>},
         maximum_batching_window_in_seconds |-> {<<0, 300>>}],
     dynamodb_stream_parameters |->
        [batch_size |-> {<<1, 10000>>},
         maximum_batching_window_in_seconds |-> {<<0, 300>>},
         maximum_record_age_in_seconds |-> {<<-1, -1>>, <<60, 604800>>},
         maximum_retry_attempts |-> {<<-1, 10000>>},
         parallelization_factor |-> {<<1, 10>>}],
     kinesis_stream_parameters |->
        [batch_size |-> {<<1, 10000>>},
         maximum_batching_window_in_seconds |-> {<<0, 300>>},
         maximum_record_age_in_seconds |-> {<<-1, -1>>, <<60, 604800>>},
         maximum_retry_attempts |-> {<<-1, 10000>>},
         parallelization_factor |-> {<<1, 10>>}],
     managed_streaming_kafka_parameters |->
        [batch_size |-> {<<1, 10000>>},
         maximum_batching_window_in_seconds |-> {<<0, 300>>}],
     rabbit_mq_broker |->
        [batch_size |-> {<<1, 10000>>},
         maximum_batching_window_in_seconds |-> {<<0, 300>>}],
     self_managed_kafka |->
        [batch_size |-> {<<1, 10000>>},
         maximum_batching_window_in_seconds |-> {<<0, 300>>}],
     sqs_queue_parameters |->
        [batch_size |-> {<<1, 10000>>},
         maximum_batching_window_in_seconds |-> {<<0, 300>>}]]

\* validation.IntBetween(min, max) applied to a Go int
IntBetweenUpperMutant(min, max, v) == v.wrap = 0 /\ v.low >= min /\ v.low < max

IntBetweenMutant(min, max, v) == v.wrap = 0 /\ v.low >= 0 /\ v.low <= max

IntBetween(min, max, v) == v.wrap = 0 /\ v.low >= min /\ v.low <= max

\* the ValidateFunc of an integer attribute reports no error
ValidateIntMutant(variant, field, v) ==
    \A r \in IntValidators[variant][field] : IntBetween(r[1], r[2], v)

ValidateInt(variant, field, v) ==
    \E r \in IntValidators[variant][field] : IntBetween(r[1], r[2], v)

Lower ==
    {"a", "b", "c", "d", "e", "f", "g", "h", "i", "j", "k", "l", "m",
     "n", "o", "p", "q", "r", "s", "t", "u", "v", "w", "x", "y", "z"}

Upper ==
    {"A", "B", "C", "D", "E", "F", "G", "H", "I", "J", "K", "L", "M",
     "N", "O", "P", "Q", "R", "S", "T", "U", "V", "W", "X", "Y", "Z"}

AlphaNum == Lower \cup Upper \cup Digits

\* every character of s is in the class
AllIn(s, class) == \A i \in 1..Len(s) : s[i] \in class

HasPrefix(s, p) == Len(s) >= Len(p) /\ SubSeq(s, 1, Len(p)) = p

\* the text of s after its first n characters
Drop(s, n) == SubSeq(s, n + 1, Len(s))

\* the position of the first c in s at or after position i, 0 if there is none
RECURSIVE IndexFrom(_, _, _)
IndexFrom(s, c, i) ==
    IF i > Len(s) THEN 0 ELSE IF s[i] = c THEN i ELSE IndexFrom(s, c, i + 1)

\* validation.StringLenBetween(min, max)
StringLenBetween(min, max, s) == Len(s) >= min /\ Len(s) <= max

\* [a-z]{2}((-gov)|(-iso(b?)))?-[a-z]+-\d{1}
MatchRegion(r) ==
    /\ Len(r) >= 2 /\ r[1] \in Lower /\ r[2] \in Lower
    /\ \E pre \in {<<>>, <<"-", "g", "o", "v">>, <<"-", "i", "s", "o">>,
                   <<"-", "i", "s", "o", "b">>} :
          /\ HasPrefix(Drop(r, 2), pre)
          /\ LET x == Drop(r, 2 + Len(pre)) IN
             /\ Len(x) >= 4 /\ x[1] = "-"
             /\ AllIn(SubSeq(x, 2, Len(x) - 2), Lower)
             /\ x[Len(x) - 1] = "-" /\ x[Len(x)] \in Digits

\* verifySecretsManagerARN:
\* ^(^arn:aws([a-z]|\-)*:secretsmanager:([a-z]{2}((-gov)|(-iso(b?)))?-[a-z]+-\d{1}):(\d{12}):secret:.+)$
\* no part before the name holds a colon, so the first six colons separate them
verifySecretsManagerARN(s) ==
    LET c1 == IndexFrom(s, ":", 1)
        c2 == IndexFrom(s, ":", c1 + 1)
        c3 == IndexFrom(s, ":", c2 + 1)
        c4 == IndexFrom(s, ":", c3 + 1)
        c5 == IndexFrom(s, ":", c4 + 1)
        c6 == IndexFrom(s, ":", c5 + 1)
        account == SubSeq(s, c4 + 1, c5 - 1)
    IN  /\ c1 > 0 /\ c2 > 0 /\ c3 > 0 /\ c4 > 0 /\ c5 > 0 /\ c6 > 0
        /\ SubSeq(s, 1, c1 - 1) = <<"a", "r", "n">>
        /\ HasPrefix(SubSeq(s, c1 + 1, c2 - 1), <<"a", "w", "s">>)
        /\ AllIn(Drop(SubSeq(s, c1 + 1, c2 - 1), 3), Lower \cup {"-"})
        /\ SubSeq(s, c2 + 1, c3 - 1) =
             <<"s", "e", "c", "r", "e", "t", "s", "m", "a", "n", "a", "g", "e", "r">>
        /\ MatchRegion(SubSeq(s, c3 + 1, c4 - 1))
        /\ Len(account) = 12 /\ AllIn(account, Digits)
        /\ SubSeq(s, c5 + 1, c6 - 1) = <<"s", "e", "c", "r", "e", "t">>
        /\ Len(s) > c6 /\ \A i \in (c6 + 1)..Len(s) : s[i] # "\n"

\* ^[^.]([a-zA-Z0-9\-_.]+)$ : one character that is no dot, then one or more
\* characters of the class
MatchTopicName(s) ==
    Len(s) >= 2 /\ s[1] # "." /\ AllIn(Tail(s), AlphaNum \cup {"-", "_", "."})

\* ^[a-zA-Z0-9-\/*:_+=.@-]*$
MatchGroupId(s) == AllIn(s, AlphaNum \cup {"-", "/", "*", ":", "_", "+", "=", ".", "@"})

\* ^(([a-zA-Z0-9]|[a-zA-Z0-9][a-zA-Z0-9\-]*[a-zA-Z0-9])\.)*
\*  ([A-Za-z0-9]|[A-Za-z0-9][A-Za-z0-9\-]*[A-Za-z0-9]):[0-9]{1,5}$ :
\* labels separated by dots, each beginning and ending with a letter or digit,
\* then a colon and a port of one to five digits
MatchServer(s) ==
    LET c == IndexFrom(s, ":", 1)
        host == SubSeq(s, 1, c - 1)
        port == Drop(s, c)
    IN  /\ c > 1
        /\ Len(port) >= 1 /\ Len(port) <= 5 /\ AllIn(port, Digits)
        /\ AllIn(host, AlphaNum \cup {"-", "."})
        /\ host[1] \in AlphaNum /\ host[Len(host)] \in AlphaNum
        /\ \A i \in 2..(Len(host) - 1) :
              host[i] = "." => host[i - 1] \in AlphaNum /\ host[i + 1] \in AlphaNum

\* ^sg-[0-9a-zA-Z]*$
MatchSecurityGroup(s) == HasPrefix(s, <<"s", "g", "-">>) /\ AllIn(Drop(s, 3), AlphaNum)

\* ^subnet-[0-9a-z]*$
MatchSubnet(s) ==
    /\ HasPrefix(s, <<"s", "u", "b", "n", "e", "t", "-">>)
    /\ AllIn(Drop(s, 7), Lower \cup Digits)

\* the ValidateFunc of each text attribute, by block and attribute name (the
\* attributes of the nested blocks and the elements of the sets are listed
\* under the name of the attribute that holds them)
StringValidators ==
    [activemq_broker_parameters |->
        [basic_auth |-> "secret_arn", queue_name |-> "queue"],
     dynamodb_stream_parameters |-> <<>>,
     filter_criteria |-> [pattern |-> "pattern"],
     kinesis_stream_parameters |-> [starting_position_timestamp |-> "rfc3339"],
     managed_streaming_kafka_parameters |->
        [client_certificate_tls_auth |-> "secret_arn", consumer_group_id |-> "topic_200",
         sasl_scram_512_auth |-> "secret_arn", topic_name |-> "topic"],
     rabbit_mq_broker |->
        [basic_auth |-> "secret_arn", queue |-> "queue", virtual_host |-> "group"],
     self_managed_kafka |->
        [basic_auth |-> "secret_arn", client_certificate_tls_auth |-> "secret_arn",
         consumer_group_id |-> "group", sasl_scram_256_auth |-> "secret_arn",
         sasl_scram_512_auth |-> "secret_arn", security_groups |-> "security_group",
         servers |-> "server", subnets |-> "subnet", topic |-> "topic"],
     sqs_queue_parameters |-> <<>>]

\* a validator of the table reports no error on the text s
StringValid(validator, s) ==
    CASE validator = "secret_arn" -> verifySecretsManagerARN(s)
      [] validator = "queue" -> StringLenBetween(1, 1000, s)
      [] validator = "pattern" -> StringLenBetween(1, 4096, s)
      [] validator = "rfc3339" -> ParsesRFC3339(s)
      [] validator = "topic_200" -> StringLenBetween(1, 200, s) /\ MatchTopicName(s)
      [] validator = "topic" -> StringLenBetween(1, 249, s) /\ MatchTopicName(s)
      [] validator = "group" -> StringLenBetween(1, 200, s) /\ MatchGroupId(s)
      [] validator = "server" -> StringLenBetween(1, 300, s) /\ MatchServer(s)
      [] validator = "security_group" -> StringLenBetween(1, 1024, s) /\ MatchSecurityGroup(s)
      [] validator = "subnet" -> StringLenBetween(1, 1024, s) /\ MatchSubnet(s)

\* the ValidateFunc of a text attribute reports no error
ValidateString(key, field, s) == StringValid(StringValidators[key][field], s)

\* the stored value each DiffSuppressFunc compares old with, by variant and
\* attribute
DiffSuppressOld ==
    [v \in VariantKeys |->
        [batch_size |-> IF v = "sqs_queue_parameters" THEN <<"1", "0">> ELSE <<"1", "0", "0">>,
         maximum_batching_window_in_seconds |-> <<"0">>]]

\* if new != "" && new != "0" { return false }; return old == "<default>"
DiffSuppressFuncMutant(variant, field, old, new) ==
    old = DiffSuppressOld[variant][field]

DiffSuppressFunc(variant, field, old, new) ==
    IF new # <<>> /\ new # <<"0">>
    THEN FALSE
    ELSE old = DiffSuppressOld[variant][field]

\* the attribute is set in the configuration (a list block: it has an element)
IsSet(m, k) ==
    /\ m.t = "map" /\ k \in DOMAIN m.m
    /\ (m.m[k].t \in {"list", "nillist"} => Len(ListElems(m.m[k])) > 0)

\* validateConflictingAttributes: a set key conflicts with every set address
\* of its ConflictsWith list; an address resolves to the key of that name in
\* element 0 of source_parameters
ConflictErrors(cfg) ==
    {k \in TopKeys : /\ IsSet(cfg, k)
                     /\ \E a \in ConflictsWith[k] :
                          /\ a[1] = "source_parameters" /\ a[2] = "0"
                          /\ a[3] \in TopKeys /\ IsSet(cfg, a[3])}

\* the block under a key, the nil map when it has none
BlockAt(m, k) == IF HasBlock(m, k) THEN Block0(m, k) ELSE NilMap

\* MaxItems of the lists and sets that may hold more than one element
CollectionMaxItemsSubnetsMutant ==
    [filter |-> 5, security_groups |-> 5, servers |-> 2, subnets |-> 15]

CollectionMaxItemsFilterMutant ==
    [filter |-> 6, security_groups |-> 5, servers |-> 2, subnets |-> 16]

CollectionMaxItems ==
    [filter |-> 5, security_groups |-> 5, servers |-> 2, subnets |-> 16]

\* the configured value of such a list or set
Collection(cfg, name) ==
    CASE name = "filter" -> Lookup(BlockAt(cfg, "filter_criteria"), "filter")
      [] name = "servers" -> Lookup(BlockAt(cfg, "self_managed_kafka"), "servers")
      [] OTHER -> Lookup(BlockAt(BlockAt(cfg, "self_managed_kafka"), "vpc"), name)

\* the number of elements of a list or set
Size(v) ==
    IF v.t = "list" THEN Len(v.e) ELSE IF v.t = "set" THEN Cardinality(v.e) ELSE 0

\* a list or set with more elements than MaxItems
MaxItemsErrors(cfg) ==
    {k \in TopKeys : Len(ListElems(Lookup(cfg, k))) > TopMaxItems[k]}
    \cup {k \in TopKeys : /\ HasBlock(cfg, k)
                          /\ \E n \in NestedBlocks[k] :
                               Len(ListElems(Lookup(Block0(cfg, k), n))) > 1}
    \cup {c \in DOMAIN CollectionMaxItems :
            Size(Collection(cfg, c)) > CollectionMaxItems[c]}

\* a Required attribute that is not set, in a block that is; a filter block
\* requires its pattern
RequiredErrors(cfg) ==
    {k \in TopKeys : /\ IsSet(cfg, k)
                     /\ \/ \E r \in Required[k] : ~IsSet(Block0(cfg, k), r)
                        \/ \E n \in NestedBlocks[k] :
                             /\ IsSet(Block0(cfg, k), n)
                             /\ \E r \in NestedRequired[k][n] :
                                  ~IsSet(Block0(Block0(cfg, k), n), r)
                        \/ /\ k = "filter_criteria"
                           /\ LET l == ListElems(Collection(cfg, "filter")) IN
                              \E i \in 1..Len(l) : ~IsSet(l[i], "pattern")}

\* the texts of a value: of a string itself, of a set its elements
Texts(v) == IF v.t = "string" THEN {v.s} ELSE IF v.t = "set" THEN v.e ELSE {}

\* the texts configured for a text attribute of the block under a key
TextsAt(cfg, k, f) ==
    CASE f \in {"basic_auth", "client_certificate_tls_auth", "sasl_scram_256_auth",
                "sasl_scram_512_auth"}
           -> Texts(Lookup(BlockAt(BlockAt(cfg, k), "credentials"), f))
      [] f = "pattern"
           -> LET l == ListElems(Collection(cfg, "filter")) IN
              UNION {Texts(Lookup(l[i], "pattern")) : i \in 1..Len(l)}
      [] f \in {"security_groups", "subnets"}
           -> Texts(Lookup(BlockAt(BlockAt(cfg, k), "vpc"), f))
      [] OTHER -> Texts(Lookup(BlockAt(cfg, k), f))

\* an attribute whose ValidateFunc reports an error on a configured value
ValueErrors(cfg) ==
    UNION {{<<k, f>> : f \in {x \in DOMAIN StringValidators[k] :
                                \E s \in TextsAt(cfg, k, x) : ~ValidateString(k, x, s)}} :
           k \in TopKeys}
    \cup UNION {{<<k, f>> : f \in {x \in DOMAIN IntValidators[k] :
                                     /\ Lookup(BlockAt(cfg, k), x).t = "int"
                                     /\ ~ValidateInt(k, x, Lookup(BlockAt(cfg, k), x))}} :
                k \in VariantKeys}

\* the diagnostics of the declared constraints Required/Optional, MaxItems,
\* ConflictsWith and ValidateFunc for a source_parameters block
schemaValidate(cfg) ==
    [conflicts |-> ConflictErrors(cfg),
     max_items |-> MaxItemsErrors(cfg),
     required  |-> RequiredErrors(cfg),
     values    |-> ValueErrors(cfg)]

NoDiags == [conflicts |-> {}, max_items |-> {}, required |-> {}, values |-> {}]

-----------------------------------------------------------------------------
(* bounded inputs: configuration nodes *)

\* integers beyond the int32 range are wrap * 2^32 + low for wrap in 0..MaxWrap
MaxWrap == 1

\* a filter list has at most MaxFilters entries
MaxFilters == 2

\* marks a key that a configuration node does not hold
Absent == [t |-> "absent"]

Str(s) == GoString(s)

sLATEST == <<"L", "A", "T", "E", "S", "T">>

sTRIM == <<"T", "R", "I", "M", "_", "H", "O", "R", "I", "Z", "O", "N">>

sAUTO == <<"A", "U", "T", "O", "M", "A", "T", "I", "C", "_", "B", "I", "S", "E", "C", "T">>

\* arn:aws:secretsmanager:us-east-1:123456789012:secret:dlq
sArn ==
    <<"a", "r", "n", ":", "a", "w", "s", ":", "s", "e", "c", "r", "e",
      "t", "s", "m", "a", "n", "a", "g", "e", "r", ":", "u", "s", "-",
      "e", "a", "s", "t", "-", "1", ":", "1", "2", "3", "4", "5", "6",
      "7", "8", "9", "0", "1", "2", ":", "s", "e", "c", "r", "e", "t",
      ":", "d", "l", "q">>

\* arn:aws:secretsmanager:us-east-1:123456789012:secret:cert
sCert ==
    <<"a", "r", "n", ":", "a", "w", "s", ":", "s", "e", "c", "r", "e",
      "t", "s", "m", "a", "n", "a", "g", "e", "r", ":", "u", "s", "-",
      "e", "a", "s", "t", "-", "1", ":", "1", "2", "3", "4", "5", "6",
      "7", "8", "9", "0", "1", "2", ":", "s", "e", "c", "r", "e", "t",
      ":", "c", "e", "r", "t">>

\* arn:aws:secretsmanager:us-east-1:123456789012:secret:sasl
sSasl ==
    <<"a", "r", "n", ":", "a", "w", "s", ":", "s", "e", "c", "r", "e",
      "t", "s", "m", "a", "n", "a", "g", "e", "r", ":", "u", "s", "-",
      "e", "a", "s", "t", "-", "1", ":", "1", "2", "3", "4", "5", "6",
      "7", "8", "9", "0", "1", "2", ":", "s", "e", "c", "r", "e", "t",
      ":", "s", "a", "s", "l">>

sQueue == <<"q", "1">>

sTopic == <<"t", "p">>

sGroup == <<"g", "r">>

sHost == <<"v", "h">>

\* timestamp texts: date, separator, time, fraction and zone are put together
TsText(mo, d, sep, frac, zone) ==
    <<"2", "0", "2", "3", "-">> \o Pad2(mo) \o <<"-">> \o Pad2(d) \o <<sep>>
    \o <<"0", "3", ":", "0", "4", ":", "0", "5">> \o frac \o zone

\* texts that time.Parse(time.RFC3339, _) accepts
ValidTimestamps ==
    {TsText(1, 2, "T", <<>>, <<"Z">>),
     TsText(2, 28, "T", <<>>, <<"+", "0", "2", ":", "0", "0">>),
     TsText(1, 2, "T", <<>>, <<"-", "0", "5", ":", "3", "0">>),
     TsText(1, 2, "T", <<>>, <<"+", "0", "0", ":", "0", "0">>),
     TsText(1, 2, "T", <<".", "5">>, <<"Z">>),
     TsText(12, 31, "T", <<".", "1", "2", "3">>, <<"+", "0", "2", ":", "0", "0">>)}

\* texts that it rejects
InvalidTimestamps ==
    {TsText(1, 2, " ", <<>>, <<"Z">>),
     TsText(13, 2, "T", <<>>, <<"Z">>),
     TsText(2, 30, "T", <<>>, <<"Z">>),
     TsText(1, 2, "T", <<>>, <<>>),
     TsText(1, 2, "T", <<".">>, <<"Z">>),
     TsText(1, 2, "T", <<>>, <<"+", "0", "2", "0", "0">>),
     <<"n", "o", "w">>,
     <<"2", "0", "2", "3", "-", "0", "1", "-", "0", "2">>}

\* Go ints: small ones and ones beyond the int32 range
IntValues == {GoInt(k, n) : k \in 0..MaxWrap, n \in {-2, 0, 7, 10001}}

IntChoices == {Absent} \cup IntValues

StringChoices(full) == {Absent, Str(<<>>), Str(full), Str(<<"z">>)}

DeadLetterChoices ==
    {Absent, NilList, GoList(<<>>), GoList(<<Nil>>), GoList(<<NilMap>>),
     GoList(<<GoMap(EmptyFcn)>>), GoList(<<GoMap([arn |-> Str(<<>>)])>>),
     GoList(<<GoMap([arn |-> Str(sArn)])>>),
     GoList(<<GoMap([arn |-> Str(sArn)]), GoMap([arn |-> Str(sCert)])>>)}

BasicAuthChoices ==
    {Absent, GoList(<<>>), GoList(<<Nil>>), GoList(<<GoMap(EmptyFcn)>>),
     GoList(<<GoMap([basic_auth |-> Str(<<>>)])>>),
     GoList(<<GoMap([basic_auth |-> Str(sArn)])>>),
     GoList(<<GoMap([basic_auth |-> Str(sArn)]), GoMap([basic_auth |-> Str(sCert)])>>)}

\* a map with the keys whose value is not Absent
Present(f) == GoMap([k \in {x \in DOMAIN f : f[x] # Absent} |-> f[k]])

MSKCredentialsChoices ==
    {Absent, GoList(<<>>), GoList(<<Nil>>),
     GoList(<<GoMap([sasl_scram_512_auth |-> Str(sSasl)]),
              GoMap([client_certificate_tls_auth |-> Str(sCert)])>>)}
    \cup {GoList(<<Present([client_certificate_tls_auth |-> c, sasl_scram_512_auth |-> x])>>) :
            c \in {Absent, Str(<<>>), Str(sCert)}, x \in {Absent, Str(<<>>), Str(sSasl)}}

\* a self_managed_kafka credentials block with each single credential, with
\* none, with basic_auth and one other, and with all four
KafkaCredentialsChoices ==
    {Absent, GoList(<<GoMap(EmptyFcn)>>),
     GoList(<<GoMap([basic_auth |-> Str(sArn), client_certificate_tls_auth |-> Str(sCert),
                     sasl_scram_256_auth |-> Str(sSasl), sasl_scram_512_auth |-> Str(sSasl)])>>)}
    \cup {GoList(<<GoMap(k :> Str(sCert))>>) :
            k \in {"basic_auth", "client_certificate_tls_auth", "sasl_scram_256_auth",
                   "sasl_scram_512_auth"}}
    \cup {GoList(<<GoMap(("basic_auth" :> Str(sArn)) @@ (k :> Str(sCert)))>>) :
            k \in {"client_certificate_tls_auth", "sasl_scram_256_auth", "sasl_scram_512_auth"}}

Letters ==
    <<"a", "b", "c", "d", "e", "f", "g", "h", "i", "j", "k", "l", "m",
      "n", "o", "p", "q", "r", "s", "t", "u", "v", "w", "x", "y", "z">>

\* a set of n texts, each the prefix, a letter of its own and the suffix
SetOfSize(prefix, suffix, n) ==
    [t |-> "set", e |-> {prefix \o <<Letters[i]>> \o suffix : i \in 1..n}]

\* a vpc block: one of its two sets has from no element to one more than
\* MaxItems admits, the other has one
VpcChoices ==
    {Absent, GoList(<<GoMap([security_groups |-> [t |-> "set", e |-> {<<"s", "g", "-", "1">>}],
                             subnets |-> [t |-> "set", e |-> {<<"s", "u", "b", "n", "e", "t", "-", "1">>}]])>>)}
    \cup {GoList(<<GoMap([security_groups |-> SetOfSize(<<"s", "g", "-">>, <<>>, n),
                          subnets |-> SetOfSize(<<"s", "u", "b", "n", "e", "t", "-">>, <<>>, 1)])>>) :
            n \in 0..(CollectionMaxItems.security_groups + 1)}
    \cup {GoList(<<GoMap([security_groups |-> SetOfSize(<<"s", "g", "-">>, <<>>, 1),
                          subnets |-> SetOfSize(<<"s", "u", "b", "n", "e", "t", "-">>, <<>>, n)])>>) :
            n \in 0..(CollectionMaxItems.subnets + 1)}

\* a servers set of no element to one more than MaxItems admits
ServersChoices ==
    {Absent, [t |-> "set", e |-> {<<"h", ":", "9">>}]}
    \cup {SetOfSize(<<"h">>, <<":", "9">>, n) : n \in 0..(CollectionMaxItems.servers + 1)}

\* the values an attribute of a variant block is drawn from
Choices ==
    [activemq_broker_parameters |->
        [batch_size |-> IntChoices,
         credentials |-> BasicAuthChoices,
         maximum_batching_window_in_seconds |-> IntChoices,
         queue_name |-> StringChoices(sQueue)],
     dynamodb_stream_parameters |->
        [batch_size |-> IntChoices,
         dead_letter_config |-> DeadLetterChoices,
         maximum_batching_window_in_seconds |-> IntChoices,
         maximum_record_age_in_seconds |-> IntChoices,
         maximum_retry_attempts |-> IntChoices,
         on_partial_batch_item_failure |-> StringChoices(sAUTO),
         parallelization_factor |-> IntChoices,
         starting_position |-> StringChoices(sLATEST)],
     kinesis_stream_parameters |->
        [batch_size |-> IntChoices,
         dead_letter_config |-> DeadLetterChoices,
         maximum_batching_window_in_seconds |-> IntChoices,
         maximum_record_age_in_seconds |-> IntChoices,
         maximum_retry_attempts |-> IntChoices,
         on_partial_batch_item_failure |-> StringChoices(sAUTO),
         parallelization_factor |-> IntChoices,
         starting_position |-> StringChoices(sTRIM),
         starting_position_timestamp |->
             {Absent, Str(<<>>)} \cup {Str(x) : x \in ValidTimestamps \cup InvalidTimestamps}],
     managed_streaming_kafka_parameters |->
        [batch_size |-> IntChoices,
         consumer_group_id |-> StringChoices(sGroup),
         credentials |-> MSKCredentialsChoices,
         maximum_batching_window_in_seconds |-> IntChoices,
         starting_position |-> StringChoices(sLATEST),
         topic_name |-> StringChoices(sTopic)],
     rabbit_mq_broker |->
        [batch_size |-> IntChoices,
         credentials |-> BasicAuthChoices,
         maximum_batching_window_in_seconds |-> IntChoices,
         queue |-> StringChoices(sQueue),
         virtual_host |-> StringChoices(sHost)],
     self_managed_kafka |->
        [batch_size |-> IntChoices,
         consumer_group_id |-> StringChoices(sGroup),
         credentials |-> KafkaCredentialsChoices,
         maximum_batching_window_in_seconds |-> IntChoices,
         server_root_ca_certificate |-> StringChoices(sArn),
         servers |-> ServersChoices,
         starting_position |-> StringChoices(sLATEST),
         topic |-> StringChoices(sTopic),
         vpc |-> VpcChoices],
     sqs_queue_parameters |->
        [batch_size |-> IntChoices,
         maximum_batching_window_in_seconds |-> IntChoices]]

\* a fully populated block of each variant: every attribute of the schema set
\* to a non-zero value that validation accepts
FullBlock ==
    [activemq_broker_parameters |->
        [batch_size |-> GoInt(0, 100),
         credentials |-> GoList(<<GoMap([basic_auth |-> Str(sArn)])>>),
         maximum_batching_window_in_seconds |-> GoInt(0, 20),
         queue_name |-> Str(sQueue)],
     dynamodb_stream_parameters |->
        [batch_size |-> GoInt(0, 100),
         dead_letter_config |-> GoList(<<GoMap([arn |-> Str(sArn)])>>),
         maximum_batching_window_in_seconds |-> GoInt(0, 20),
         maximum_record_age_in_seconds |-> GoInt(0, 60),
         maximum_retry_attempts |-> GoInt(0, 3),
         on_partial_batch_item_failure |-> Str(sAUTO),
         parallelization_factor |-> GoInt(0, 2),
         starting_position |-> Str(sLATEST)],
     kinesis_stream_parameters |->
        [batch_size |-> GoInt(0, 100),
         dead_letter_config |-> GoList(<<GoMap([arn |-> Str(sArn)])>>),
         maximum_batching_window_in_seconds |-> GoInt(0, 20),
         maximum_record_age_in_seconds |-> GoInt(0, 60),
         maximum_retry_attempts |-> GoInt(0, 3),
         on_partial_batch_item_failure |-> Str(sAUTO),
         parallelization_factor |-> GoInt(0, 2),
         starting_position |-> Str(sTRIM),
         starting_position_timestamp |-> Str(TsText(1, 2, "T", <<>>, <<"Z">>))],
     managed_streaming_kafka_parameters |->
        [batch_size |-> GoInt(0, 100),
         consumer_group_id |-> Str(sGroup),
         credentials |-> GoList(<<GoMap([client_certificate_tls_auth |-> Str(sCert)])>>),
         maximum_batching_window_in_seconds |-> GoInt(0, 20),
         starting_position |-> Str(sLATEST),
         topic_name |-> Str(sTopic)],
     rabbit_mq_broker |->
        [batch_size |-> GoInt(0, 100),
         credentials |-> GoList(<<GoMap([basic_auth |-> Str(sArn)])>>),
         maximum_batching_window_in_seconds |-> GoInt(0, 20),
         queue |-> Str(sQueue),
         virtual_host |-> Str(sHost)],
     self_managed_kafka |->
        [batch_size |-> GoInt(0, 100),
         consumer_group_id |-> Str(sGroup),
         credentials |-> GoList(<<GoMap([basic_auth |-> Str(sArn)])>>),
         maximum_batching_window_in_seconds |-> GoInt(0, 20),
         server_root_ca_certificate |-> Str(sArn),
         servers |-> [t |-> "set", e |-> {<<"h", ":", "9">>}],
         starting_position |-> Str(sLATEST),
         topic |-> Str(sTopic),
         vpc |-> GoList(<<GoMap([security_groups |-> [t |-> "set", e |-> {<<"s", "g", "-", "1">>}],
                                 subnets |-> [t |-> "set", e |-> {<<"s", "u", "b", "n", "e", "t", "-", "1">>}]])>>)],
     sqs_queue_parameters |->
        [batch_size |-> GoInt(0, 10),
         maximum_batching_window_in_seconds |-> GoInt(0, 20)]]

\* the blocks of a variant: starting from the empty or from the fully populated
\* block, one attribute takes each of its choices
VariantBlocks(variant) ==
    UNION {UNION {{Present([k \in DOMAIN FullBlock[variant] |->
                              IF k = f THEN c
                              ELSE IF full THEN FullBlock[variant][k] ELSE Absent]) :
                     c \in Choices[variant][f]} :
                  f \in DOMAIN FullBlock[variant]} :
           full \in BOOLEAN}

\* the filter lists: up to MaxFilters entries, an entry a pattern map, a map
\* without pattern or nil
FilterEntries ==
    {GoMap([pattern |-> Str(<<"p">>)]), GoMap([pattern |-> Str(<<"q", "q">>)]),
     GoMap([pattern |-> Str(<<>>)]), GoMap(EmptyFcn), Nil}

FilterLists == UNION {[1..n -> FilterEntries] : n \in 0..MaxFilters}

\* a pattern of n characters
PatternOf(n) == [i \in 1..n |-> "p"]

\* a filter whose pattern tells its position in the list
NumberedFilter(i) == GoMap([pattern |-> Str(<<"p", DigitChar(i)>>)])

\* longer filter lists of distinct patterns, up to one more entry than MaxItems
\* admits, and lists whose last pattern has a length at a limit of its validator
LongFilterLists ==
    {[i \in 1..n |-> NumberedFilter(i)] : n \in 3..(CollectionMaxItems.filter + 1)}
    \cup {[i \in 1..n |-> IF i = n THEN GoMap([pattern |-> Str(PatternOf(len))])
                                   ELSE NumberedFilter(i)] :
            n \in 1..2, len \in {4096, 4097}}

FilterCriteriaBlocks ==
    {GoMap(EmptyFcn), GoMap([filter |-> NilList])}
    \cup {GoMap([filter |-> GoList(l)]) : l \in FilterLists \cup LongFilterLists}

FullFilterCriteria ==
    GoMap([filter |-> GoList(<<GoMap([pattern |-> Str(<<"p">>)]),
                               GoMap([pattern |-> Str(<<"q", "q">>)])>>)])

BlocksOf(k) == IF k = "filter_criteria" THEN FilterCriteriaBlocks ELSE VariantBlocks(k)

FullOf(k) == IF k = "filter_criteria" THEN FullFilterCriteria ELSE GoMap(FullBlock[k])

\* the shapes of a list wrapper that hold no usable block, or more than one
WrapperShapes(k) ==
    {NilList, GoList(<<>>), GoList(<<Nil>>), GoList(<<NilMap>>),
     GoList(<<FullOf(k), GoMap(EmptyFcn)>>)}

\* the source_parameters nodes: one key with each of its blocks, one key with
\* each wrapper shape, every combination of fully populated keys, the nil map
ConfigNodes ==
    {NilMap}
    \cup UNION {{GoMap(k :> GoList(<<b>>)) : b \in BlocksOf(k)} : k \in TopKeys}
    \cup UNION {{GoMap(k :> w) : w \in WrapperShapes(k)} : k \in TopKeys}
    \cup {GoMap([k \in ks |-> GoList(<<FullOf(k)>>)]) : ks \in SUBSET TopKeys}

-----------------------------------------------------------------------------
(* bounded inputs: typed objects as the service may return them *)

BasicAuthMember(v) == [member |-> "MQBrokerAccessCredentialsMemberBasicAuth", Value |-> v]

ClientCertificateMember(v) ==
    [member |-> "MSKAccessCredentialsMemberClientCertificateTlsAuth", Value |-> v]

SaslScram512Member(v) == [member |-> "MSKAccessCredentialsMemberSaslScram512Auth", Value |-> v]

\* the SDK's member for a union tag it does not know
UnknownMember == [member |-> "UnknownUnionMember", Value |-> <<>>]

Int32Ptrs == {Nil, Ptr(0), Ptr(-1), Ptr(10)}

StringPtrs(full) == {Nil, Ptr(<<>>), Ptr(full)}

DeadLetterObjects == {Nil, [Arn |-> Nil], [Arn |-> Ptr(<<>>)], [Arn |-> Ptr(sArn)]}

FilterObjects == {[Pattern |-> Nil], [Pattern |-> Ptr(<<>>)], [Pattern |-> Ptr(<<"p">>)],
                  [Pattern |-> Ptr(<<"q", "q">>)]}

\* []types.Filter: the nil slice, or a slice of 0..MaxFilters filters
FilterSlices == {Nil} \cup {[elems |-> l] : l \in UNION {[1..n -> FilterObjects] : n \in 0..MaxFilters}}

\* longer slices of filters with distinct patterns
LongFilterSlices ==
    {[elems |-> [i \in 1..n |-> [Pattern |-> Ptr(<<"p", DigitChar(i)>>)]]] :
       n \in 3..(CollectionMaxItems.filter + 1)}

FilterCriteriaObjects == {[Filters |-> f] : f \in FilterSlices}

TimePtrs ==
    {Nil, Ptr(ZeroTime)}
    \cup {Ptr(timeParse(x)) : x \in ValidTimestamps}

\* the values a field of a typed variant object is drawn from
TypedChoices ==
    [ActiveMQBrokerParameters |->
        [BatchSize |-> Int32Ptrs,
         Credentials |-> {Nil, BasicAuthMember(<<>>), BasicAuthMember(sArn), UnknownMember},
         MaximumBatchingWindowInSeconds |-> Int32Ptrs,
         QueueName |-> StringPtrs(sQueue)],
     DynamoDBStreamParameters |->
        [BatchSize |-> Int32Ptrs,
         DeadLetterConfig |-> DeadLetterObjects,
         MaximumBatchingWindowInSeconds |-> Int32Ptrs,
         MaximumRecordAgeInSeconds |-> Int32Ptrs,
         MaximumRetryAttempts |-> Int32Ptrs,
         OnPartialBatchItemFailure |-> {<<>>, sAUTO},
         ParallelizationFactor |-> Int32Ptrs,
         StartingPosition |-> {<<>>, sLATEST, sTRIM}],
     KinesisStreamParameters |->
        [BatchSize |-> Int32Ptrs,
         DeadLetterConfig |-> DeadLetterObjects,
         MaximumBatchingWindowInSeconds |-> Int32Ptrs,
         MaximumRecordAgeInSeconds |-> Int32Ptrs,
         MaximumRetryAttempts |-> Int32Ptrs,
         OnPartialBatchItemFailure |-> {<<>>, sAUTO},
         ParallelizationFactor |-> Int32Ptrs,
         StartingPosition |-> {<<>>, sLATEST, sTRIM},
         StartingPositionTimestamp |-> TimePtrs],
     ManagedStreamingKafkaParameters |->
        [BatchSize |-> Int32Ptrs,
         ConsumerGroupID |-> StringPtrs(sGroup),
         Credentials |-> {Nil, ClientCertificateMember(<<>>), ClientCertificateMember(sCert),
                          SaslScram512Member(<<>>), SaslScram512Member(sSasl), UnknownMember},
         MaximumBatchingWindowInSeconds |-> Int32Ptrs,
         StartingPosition |-> {<<>>, sLATEST, sTRIM},
         TopicName |-> StringPtrs(sTopic)],
     RabbitMQBrokerParameters |->
        [BatchSize |-> Int32Ptrs,
         Credentials |-> {Nil, BasicAuthMember(sArn)},
         MaximumBatchingWindowInSeconds |-> Int32Ptrs,
         QueueName |-> StringPtrs(sQueue),
         VirtualHost |-> StringPtrs(sHost)],
     SelfManagedKafkaParameters |->
        [BatchSize |-> Int32Ptrs,
         ConsumerGroupID |-> StringPtrs(sGroup),
         MaximumBatchingWindowInSeconds |-> Int32Ptrs,
         StartingPosition |-> {<<>>, sLATEST, sTRIM},
         TopicName |-> StringPtrs(sTopic)],
     SqsQueueParameters |->
        [BatchSize |-> Int32Ptrs,
         MaximumBatchingWindowInSeconds |-> Int32Ptrs]]

\* a typed variant object with every field set
FullTyped ==
    [ActiveMQBrokerParameters |->
        [BatchSize |-> Ptr(100), Credentials |-> BasicAuthMember(sArn),
         MaximumBatchingWindowInSeconds |-> Ptr(20), QueueName |-> Ptr(sQueue)],
     DynamoDBStreamParameters |->
        [BatchSize |-> Ptr(100), DeadLetterConfig |-> [Arn |-> Ptr(sArn)],
         MaximumBatchingWindowInSeconds |-> Ptr(20), MaximumRecordAgeInSeconds |-> Ptr(60),
         MaximumRetryAttempts |-> Ptr(3), OnPartialBatchItemFailure |-> sAUTO,
         ParallelizationFactor |-> Ptr(2), StartingPosition |-> sLATEST],
     KinesisStreamParameters |->
        [BatchSize |-> Ptr(100), DeadLetterConfig |-> [Arn |-> Ptr(sArn)],
         MaximumBatchingWindowInSeconds |-> Ptr(20), MaximumRecordAgeInSeconds |-> Ptr(60),
         MaximumRetryAttempts |-> Ptr(3), OnPartialBatchItemFailure |-> sAUTO,
         ParallelizationFactor |-> Ptr(2), StartingPosition |-> sTRIM,
         StartingPositionTimestamp |-> Ptr(timeParse(TsText(1, 2, "T", <<>>, <<"Z">>)))],
     ManagedStreamingKafkaParameters |->
        [BatchSize |-> Ptr(100), ConsumerGroupID |-> Ptr(sGroup),
         Credentials |-> ClientCertificateMember(sCert),
         MaximumBatchingWindowInSeconds |-> Ptr(20), StartingPosition |-> sLATEST,
         TopicName |-> Ptr(sTopic)],
     RabbitMQBrokerParameters |->
        [BatchSize |-> Ptr(100), Credentials |-> BasicAuthMember(sArn),
         MaximumBatchingWindowInSeconds |-> Ptr(20), QueueName |-> Ptr(sQueue),
         VirtualHost |-> Ptr(sHost)],
     SelfManagedKafkaParameters |->
        [BatchSize |-> Ptr(100), ConsumerGroupID |-> Ptr(sGroup),
         MaximumBatchingWindowInSeconds |-> Ptr(20), StartingPosition |-> sLATEST,
         TopicName |-> Ptr(sTopic)],
     SqsQueueParameters |->
        [BatchSize |-> Ptr(10), MaximumBatchingWindowInSeconds |-> Ptr(20)]]

\* the zero value of the fields of a typed variant object
ZeroField(f) ==
    IF f \in {"OnPartialBatchItemFailure", "StartingPosition"} THEN <<>> ELSE Nil

\* the typed objects of a variant: starting from the zero or from the fully set
\* struct, one field takes each of its choices
TypedVariants(field) ==
    UNION {UNION {{[k \in DOMAIN FullTyped[field] |->
                      IF k = f THEN c
                      ELSE IF full THEN FullTyped[field][k] ELSE ZeroField(k)] :
                     c \in TypedChoices[field][f]} :
                  f \in DOMAIN FullTyped[field]} :
           full \in BOOLEAN}

\* the fields of types.PipeSourceParameters
ParameterFields == DOMAIN FullTyped \cup {"FilterCriteria"}

TypedOf(field) == IF field = "FilterCriteria" THEN FilterCriteriaObjects ELSE TypedVariants(field)

FullTypedOf(field) ==
    IF field = "FilterCriteria"
    THEN [Filters |-> [elems |-> <<[Pattern |-> Ptr(<<"p">>)], [Pattern |-> Ptr(<<"q", "q">>)]>>]]
    ELSE FullTyped[field]

\* the typed source parameters: nil, one field with each of its objects, every
\* combination of fully set fields
ApiObjects ==
    {Nil}
    \cup UNION {{[k \in ParameterFields |-> IF k = f THEN o ELSE Nil] : o \in TypedOf(f)} :
                f \in ParameterFields}
    \cup {[k \in ParameterFields |-> IF k \in ks THEN FullTypedOf(k) ELSE Nil] :
            ks \in SUBSET ParameterFields}

-----------------------------------------------------------------------------
(* the life cycle of a source_parameters block and single calls of the mappers *)

ExpandFunctions ==
    {"expandPipeSourceParameters", "expandUpdatePipeSourceParameters",
     "expandFilterCriteria", "expandFilter", "expandFilters",
     "expandPipeSourceActiveMQBrokerParameters",
     "expandMQBrokerAccessCredentialsMemberBasicAuth",
     "expandPipeSourceDynamoDBStreamParameters",
     "expandPipeSourceKinesisStreamParameters",
     "expandPipeSourceManagedStreamingKafkaParameters",
     "expandMSKAccessCredentials", "expandPipeSourceSqsQueueParameters",
     "expandDeadLetterConfig"}

FlattenFunctions ==
    {"flattenPipeSourceParameters", "flattenFilterCriteria", "flattenFilters",
     "flattenPipeSourceActiveMQBrokerParameters",
     "flattenMQBrokerAccessCredentialsMemberBasicAuth",
     "flattenPipeSourceDynamoDBStreamParameters",
     "flattenPipeSourceKinesisStreamParameters",
     "flattenPipeSourceManagedStreamingKafkaParameters",
     "flattenMSKAccessCredentials", "flattenPipeSourceSqsQueueParameters",
     "flattenDeadLetterConfig"}

\* the configuration key whose block an expand function takes
KeyOf(fn) ==
    CASE fn = "expandPipeSourceActiveMQBrokerParameters" -> "activemq_broker_parameters"
      [] fn = "expandPipeSourceDynamoDBStreamParameters" -> "dynamodb_stream_parameters"
      [] fn = "expandPipeSourceKinesisStreamParameters" -> "kinesis_stream_parameters"
      [] fn = "expandPipeSourceManagedStreamingKafkaParameters" -> "managed_streaming_kafka_parameters"
      [] fn = "expandPipeSourceSqsQueueParameters" -> "sqs_queue_parameters"
      [] fn = "expandFilterCriteria" -> "filter_criteria"

\* the typed field whose object a flatten function takes
FieldOf(fn) ==
    CASE fn = "flattenPipeSourceActiveMQBrokerParameters" -> "ActiveMQBrokerParameters"
      [] fn = "flattenPipeSourceDynamoDBStreamParameters" -> "DynamoDBStreamParameters"
      [] fn = "flattenPipeSourceKinesisStreamParameters" -> "KinesisStreamParameters"
      [] fn = "flattenPipeSourceManagedStreamingKafkaParameters" -> "ManagedStreamingKafkaParameters"
      [] fn = "flattenPipeSourceSqsQueueParameters" -> "SqsQueueParameters"
      [] fn = "flattenFilterCriteria" -> "FilterCriteria"

\* unwraps a one-element list choice to its element
Elements(choices) == {c.e[1] : c \in {x \in choices : x.t = "list" /\ Len(x.e) > 0 /\ x.e[1] # Nil}}

\* the arguments a mapper is called with
ArgsOf(fn) ==
    CASE fn \in {"expandPipeSourceParameters", "expandUpdatePipeSourceParameters"} -> ConfigNodes
      [] fn \in {"expandPipeSourceActiveMQBrokerParameters", "expandPipeSourceDynamoDBStreamParameters",
                 "expandPipeSourceKinesisStreamParameters",
                 "expandPipeSourceManagedStreamingKafkaParameters",
                 "expandPipeSourceSqsQueueParameters", "expandFilterCriteria"}
           -> {NilMap} \cup BlocksOf(KeyOf(fn))
      [] fn = "expandFilter" -> {NilMap} \cup (FilterEntries \ {Nil})
      [] fn = "expandFilters" -> {GoList(l) : l \in FilterLists \cup LongFilterLists}
      [] fn = "expandMQBrokerAccessCredentialsMemberBasicAuth" -> Elements(BasicAuthChoices)
      [] fn = "expandMSKAccessCredentials" -> {NilMap} \cup Elements(MSKCredentialsChoices)
      [] fn = "expandDeadLetterConfig" -> Elements(DeadLetterChoices)
      [] fn = "flattenPipeSourceParameters" -> ApiObjects
      [] fn \in {"flattenPipeSourceActiveMQBrokerParameters", "flattenPipeSourceDynamoDBStreamParameters",
                 "flattenPipeSourceKinesisStreamParameters",
                 "flattenPipeSourceManagedStreamingKafkaParameters",
                 "flattenPipeSourceSqsQueueParameters", "flattenFilterCriteria"}
           -> {Nil} \cup TypedOf(FieldOf(fn))
      [] fn = "flattenFilters" -> FilterSlices \cup LongFilterSlices
      [] fn = "flattenMQBrokerAccessCredentialsMemberBasicAuth"
           -> {Nil, BasicAuthMember(<<>>), BasicAuthMember(sArn)}
      [] fn = "flattenMSKAccessCredentials" -> TypedChoices.ManagedStreamingKafkaParameters.Credentials
      [] fn = "flattenDeadLetterConfig" -> DeadLetterObjects

\* the result of calling a mapper
Apply(fn, x) ==
    CASE fn = "expandPipeSourceParameters" -> expandPipeSourceParameters(x)
      [] fn = "expandUpdatePipeSourceParameters" -> expandUpdatePipeSourceParameters(x)
      [] fn = "expandFilterCriteria" -> expandFilterCriteria(x)
      [] fn = "expandFilter" -> expandFilter(x)
      [] fn = "expandFilters" -> expandFilters(x.e)
      [] fn = "expandPipeSourceActiveMQBrokerParameters" -> expandPipeSourceActiveMQBrokerParameters(x)
      [] fn = "expandMQBrokerAccessCredentialsMemberBasicAuth" -> expandMQBrokerAccessCredentialsMemberBasicAuth(x)
      [] fn = "expandPipeSourceDynamoDBStreamParameters" -> expandPipeSourceDynamoDBStreamParameters(x)
      [] fn = "expandPipeSourceKinesisStreamParameters" -> expandPipeSourceKinesisStreamParameters(x)
      [] fn = "expandPipeSourceManagedStreamingKafkaParameters" -> expandPipeSourceManagedStreamingKafkaParameters(x)
      [] fn = "expandMSKAccessCredentials" -> expandMSKAccessCredentials(x)
      [] fn = "expandPipeSourceSqsQueueParameters" -> expandPipeSourceSqsQueueParameters(x)
      [] fn = "expandDeadLetterConfig" -> expandDeadLetterConfig(x)
      [] fn = "flattenPipeSourceParameters" -> flattenPipeSourceParameters(x)
      [] fn = "flattenFilterCriteria" -> flattenFilterCriteria(x)
      [] fn = "flattenFilters" -> flattenFilters(x)
      [] fn = "flattenPipeSourceActiveMQBrokerParameters" -> flattenPipeSourceActiveMQBrokerParameters(x)
      [] fn = "flattenMQBrokerAccessCredentialsMemberBasicAuth" -> flattenMQBrokerAccessCredentialsMemberBasicAuth(x)
      [] fn = "flattenPipeSourceDynamoDBStreamParameters" -> flattenPipeSourceDynamoDBStreamParameters(x)
      [] fn = "flattenPipeSourceKinesisStreamParameters" -> flattenPipeSourceKinesisStreamParameters(x)
      [] fn = "flattenPipeSourceManagedStreamingKafkaParameters" -> flattenPipeSourceManagedStreamingKafkaParameters(x)
      [] fn = "flattenMSKAccessCredentials" -> flattenMSKAccessCredentials(x)
      [] fn = "flattenPipeSourceSqsQueueParameters" -> flattenPipeSourceSqsQueueParameters(x)
      [] fn = "flattenDeadLetterConfig" -> flattenDeadLetterConfig(x)

\* the integers a validator is tried on: every declared limit and its
\* neighbours, and the same values beyond the int32 range
Neighbourhood == 2

ValidatorInts ==
    {GoInt(k, b + d) :
       k \in 0..MaxWrap,
       b \in UNION {UNION {{r[1], r[2]} : r \in IntValidators[v][f]} :
                      <<v, f>> \in {x \in VariantKeys \X {"batch_size", "maximum_batching_window_in_seconds",
                                                           "maximum_record_age_in_seconds",
                                                           "maximum_retry_attempts", "parallelization_factor"} :
                                      x[2] \in DOMAIN IntValidators[x[1]]}},
       d \in (-Neighbourhood)..Neighbourhood}

\* the texts a validator is tried on: lengths at its limits and next to them,
\* and texts with a character its expression excludes
StringSamples(validator) ==
    CASE validator \in {"topic", "topic_200"}
           -> {[i \in 1..n |-> "a"] : n \in {0, 1, 2, 200, 201, 249, 250}}
              \cup {<<".", "a">>, <<"a", ".", "b">>, <<"#", "a">>, <<"a", "#">>, <<"-", "_">>}
      [] validator = "secret_arn"
           -> {<<>>, sArn, sCert, <<"a", "r", "n", ":", "x">>, sArn \o <<"\n">>}
      [] validator = "pattern" -> {PatternOf(n) : n \in {0, 1, 4096, 4097}}
      [] validator = "queue" -> {PatternOf(n) : n \in {0, 1, 1000, 1001}}
      [] validator = "rfc3339" -> {<<>>} \cup ValidTimestamps \cup InvalidTimestamps
      [] validator = "group"
           -> {<<>>, sGroup, sHost, <<"a", "#">>, <<"a", "/", "*", ":", "@">>}
              \cup {[i \in 1..n |-> "g"] : n \in {200, 201}}
      [] validator = "server"
           -> {<<>>, <<"h", ":", "9">>, <<"h">>, <<":", "9">>, <<"-", "h", ":", "9">>,
               <<"a", ".", "b", "-", "c", ":", "6", "5", "5", "3", "5">>,
               <<"a", ".", ".", "b", ":", "1">>,
               <<"a", ":", "1", "2", "3", "4", "5", "6">>}
      [] validator = "security_group"
           -> {<<>>, <<"s", "g", "-">>, <<"s", "g", "-", "1">>, <<"s", "g", "_", "1">>,
               <<"s", "g", "-", "a", "-", "b">>}
      [] validator = "subnet"
           -> {<<>>, <<"s", "u", "b", "n", "e", "t", "-", "1">>,
               <<"s", "u", "b", "n", "e", "t", "-", "A">>, <<"s", "u", "b", "n", "e", "t">>}

\* the texts a DiffSuppressFunc is tried on, as old and as new value
DiffTexts ==
    {<<>>, <<"0">>, <<"0", "0">>, <<"1">>, <<"5">>, <<"1", "0">>, <<"1", "0", "0">>,
     <<"1", "0", "0", "0">>}

NoCall == [fn |-> "", arg |-> Nil, ret |-> Nil]

Init ==
    /\ pc = "config"
    /\ tfMap \in ConfigNodes
    /\ apiObject = Nil
    /\ tfState = NilMap
    /\ diags = NoDiags
    /\ call = NoCall

\* schema validation of the configured block
Validate ==
    /\ pc = "config"
    /\ diags' = schemaValidate(tfMap)
    /\ pc' = "validated"
    /\ UNCHANGED <<tfMap, apiObject, tfState, call>>

\* create: the configured block is expanded into the request; the mapper does
\* not depend on validation having run
ExpandMutant ==
    /\ pc \in {"config", "validated"}
    /\ apiObject' = expandPipeSourceParameters(tfMap)
    /\ tfMap' = NilMap
    /\ pc' = "expanded"
    /\ UNCHANGED <<tfState, diags, call>>

Expand ==
    /\ pc \in {"config", "validated"}
    /\ apiObject' = expandPipeSourceParameters(tfMap)
    /\ pc' = "expanded"
    /\ UNCHANGED <<tfMap, tfState, diags, call>>

\* read: the service describes a pipe that has no configuration at hand
Read ==
    /\ pc = "config" /\ tfMap = NilMap
    /\ apiObject' \in ApiObjects
    /\ pc' = "read"
    /\ UNCHANGED <<tfMap, tfState, diags, call>>

\* the typed object is flattened into the state
Flatten ==
    /\ pc \in {"expanded", "read"}
    /\ tfState' = flattenPipeSourceParameters(apiObject)
    /\ pc' = IF pc = "expanded" THEN "roundtrip" ELSE "flattened"
    /\ UNCHANGED <<tfMap, apiObject, diags, call>>

\* one call of an expand function
CallExpand ==
    /\ pc = "config" /\ tfMap = NilMap
    /\ \E fn \in ExpandFunctions : \E x \in ArgsOf(fn) :
          call' = [fn |-> fn, arg |-> x, ret |-> Apply(fn, x)]
    /\ pc' = "called"
    /\ UNCHANGED <<tfMap, apiObject, tfState, diags>>

\* one call of a flatten function
CallFlatten ==
    /\ pc = "config" /\ tfMap = NilMap
    /\ \E fn \in FlattenFunctions : \E x \in ArgsOf(fn) :
          call' = [fn |-> fn, arg |-> x, ret |-> Apply(fn, x)]
    /\ pc' = "called"
    /\ UNCHANGED <<tfMap, apiObject, tfState, diags>>

\* one call of the ValidateFunc of an integer attribute
CallValidateFunc ==
    /\ pc = "config" /\ tfMap = NilMap
    /\ \E variant \in VariantKeys : \E field \in DOMAIN IntValidators[variant] :
          \E v \in ValidatorInts :
            call' = [fn |-> "ValidateFunc",
                     arg |-> [variant |-> variant, field |-> field, v |-> v],
                     ret |-> [ok |-> ValidateInt(variant, field, v)]]
    /\ pc' = "called"
    /\ UNCHANGED <<tfMap, apiObject, tfState, diags>>

\* one call of the ValidateFunc of a text attribute
CallValidateString ==
    /\ pc = "config" /\ tfMap = NilMap
    /\ \E key \in TopKeys : \E field \in DOMAIN StringValidators[key] :
          \E s \in StringSamples(StringValidators[key][field]) :
            call' = [fn |-> "ValidateFunc",
                     arg |-> [variant |-> key, field |-> field, v |-> Str(s)],
                     ret |-> [ok |-> ValidateString(key, field, s)]]
    /\ pc' = "called"
    /\ UNCHANGED <<tfMap, apiObject, tfState, diags>>

\* one call of the DiffSuppressFunc of an attribute, with the stored and the
\* planned value as texts
CallDiffSuppress ==
    /\ pc = "config" /\ tfMap = NilMap
    /\ \E variant \in VariantKeys : \E field \in DOMAIN DiffSuppressOld[variant] :
          \E old \in DiffTexts : \E new \in DiffTexts :
            call' = [fn |-> "DiffSuppressFunc",
                     arg |-> [variant |-> variant, field |-> field, old |-> old, new |-> new],
                     ret |-> [suppress |-> DiffSuppressFunc(variant, field, old, new)]]
    /\ pc' = "called"
    /\ UNCHANGED <<tfMap, apiObject, tfState, diags>>

Next ==
    \/ Validate
    \/ Expand
    \/ Read
    \/ Flatten
    \/ CallExpand
    \/ CallFlatten
    \/ CallValidateFunc
    \/ CallValidateString
    \/ CallDiffSuppress

Spec == Init /\ [][Next]_vars

-----------------------------------------------------------------------------
(* properties *)

\* the typed field of types.PipeSourceParameters that corresponds to a key
FieldOfKey ==
    [activemq_broker_parameters |-> "ActiveMQBrokerParameters",
     dynamodb_stream_parameters |-> "DynamoDBStreamParameters",
     filter_criteria |-> "FilterCriteria",
     kinesis_stream_parameters |-> "KinesisStreamParameters",
     managed_streaming_kafka_parameters |-> "ManagedStreamingKafkaParameters",
     rabbit_mq_broker |-> "RabbitMQBrokerParameters",
     self_managed_kafka |-> "SelfManagedKafkaParameters",
     sqs_queue_parameters |-> "SqsQueueParameters"]

EnumTypes == {"types.OnPartialBatchItemFailureStreams", "types.DynamoDBStreamStartPosition",
              "types.KinesisStreamStartPosition", "types.MSKStartPosition"}

\* a value as the state stores it: integers as int, enumerations as string
RECURSIVE Canon(_)
Canon(v) ==
    CASE v.t = "int32" -> GoInt(0, v.low)
      [] v.t \in EnumTypes -> GoString(v.s)
      [] v.t = "list" -> GoList([i \in 1..Len(v.e) |-> Canon(v.e[i])])
      [] v.t = "map" -> GoMap([k \in DOMAIN v.m |-> Canon(v.m[k])])
      [] OTHER -> v

\* the node holds exactly one variant, with every attribute of its schema set
\* to a non-zero value that validation accepts
FullyPopulatedVariant(cfg) ==
    \E k \in VariantKeys : cfg = GoMap(k :> GoList(<<GoMap(FullBlock[k])>>))

\* C1: for each of the seven source-parameter variants, a node in which that
\* variant is fully populated with non-zero values is reproduced by expand
\* followed by flatten (integers and enumerations compared by value)
C1_RoundTripEveryVariant ==
    (pc = "roundtrip" /\ FullyPopulatedVariant(tfMap)) => Canon(tfState) = tfMap

\* the key holds a non-empty list whose first element is not nil
KeyPopulated(cfg, k) ==
    /\ cfg.t = "map" /\ k \in DOMAIN cfg.m
    /\ cfg.m[k].t = "list" /\ Len(cfg.m[k].e) > 0
    /\ cfg.m[k].e[1] \notin {Nil, NilMap}

\* C2: expandPipeSourceParameters sets the typed field of each of the eight
\* keys of the schema exactly when the key holds a non-empty list whose first
\* element is not nil
C2_EveryDeclaredKeyExpanded ==
    (pc = "expanded" /\ tfMap.t = "map") =>
        \A k \in TopKeys : (apiObject[FieldOfKey[k]] # Nil) <=> KeyPopulated(tfMap, k)

\* the integer and string attributes of the blocks and the typed field each
\* one is expanded to: ptr marks a pointer field, val a string-valued one
ScalarFields(fn) ==
    CASE fn = "expandPipeSourceActiveMQBrokerParameters" ->
           {<<"batch_size", "BatchSize", "int">>,
            <<"maximum_batching_window_in_seconds", "MaximumBatchingWindowInSeconds", "int">>,
            <<"queue_name", "QueueName", "ptr">>}
      [] fn = "expandPipeSourceDynamoDBStreamParameters" ->
           {<<"batch_size", "BatchSize", "int">>,
            <<"maximum_batching_window_in_seconds", "MaximumBatchingWindowInSeconds", "int">>,
            <<"maximum_record_age_in_seconds", "MaximumRecordAgeInSeconds", "int">>,
            <<"maximum_retry_attempts", "MaximumRetryAttempts", "int">>,
            <<"on_partial_batch_item_failure", "OnPartialBatchItemFailure", "val">>,
            <<"parallelization_factor", "ParallelizationFactor", "int">>,
            <<"starting_position", "StartingPosition", "val">>}
      [] fn = "expandPipeSourceKinesisStreamParameters" ->
           {<<"batch_size", "BatchSize", "int">>,
            <<"maximum_batching_window_in_seconds", "MaximumBatchingWindowInSeconds", "int">>,
            <<"maximum_record_age_in_seconds", "MaximumRecordAgeInSeconds", "int">>,
            <<"maximum_retry_attempts", "MaximumRetryAttempts", "int">>,
            <<"on_partial_batch_item_failure", "OnPartialBatchItemFailure", "val">>,
            <<"parallelization_factor", "ParallelizationFactor", "int">>,
            <<"starting_position", "StartingPosition", "val">>}
      [] fn = "expandPipeSourceManagedStreamingKafkaParameters" ->
           {<<"batch_size", "BatchSize", "int">>,
            <<"consumer_group_id", "ConsumerGroupID", "ptr">>,
            <<"maximum_batching_window_in_seconds", "MaximumBatchingWindowInSeconds", "int">>,
            <<"starting_position", "StartingPosition", "val">>,
            <<"topic_name", "TopicName", "ptr">>}
      [] fn = "expandPipeSourceSqsQueueParameters" ->
           {<<"batch_size", "BatchSize", "int">>,
            <<"maximum_batching_window_in_seconds", "MaximumBatchingWindowInSeconds", "int">>}
      [] fn = "expandDeadLetterConfig" -> {<<"arn", "Arn", "ptr">>}
      [] fn = "expandFilter" -> {<<"pattern", "Pattern", "ptr">>}
      [] fn = "expandMQBrokerAccessCredentialsMemberBasicAuth" ->
           {<<"basic_auth", "Value", "val">>}
      [] OTHER -> {}

\* the key is absent or holds the zero value of its type
AbsentOrZero(m, k) ==
    \/ k \notin DOMAIN m.m
    \/ m.m[k].t = "int" /\ m.m[k].wrap = 0 /\ m.m[k].low = 0
    \/ m.m[k].t = "string" /\ m.m[k].s = <<>>

\* the typed field is unset
Unset(ret, sf) == IF sf[3] = "val" THEN ret[sf[2]] = <<>> ELSE ret[sf[2]] = Nil

\* the typed field holds exactly the value of the key
HoldsInput(m, ret, sf) ==
    CASE sf[3] = "int" -> /\ ret[sf[2]] # Nil
                          /\ m.m[sf[1]].wrap = 0
                          /\ ret[sf[2]].ptr = m.m[sf[1]].low
      [] sf[3] = "ptr" -> ret[sf[2]] # Nil /\ ret[sf[2]].ptr = m.m[sf[1]].s
      [] sf[3] = "val" -> ret[sf[2]] = m.m[sf[1]].s

\* the typed field holds the value of the key converted by int32(v): its low
\* 32 bits, which is the value itself when it fits in 32 bits
HoldsConverted(m, ret, sf) ==
    IF sf[3] = "int"
    THEN ret[sf[2]] # Nil /\ ret[sf[2]].ptr = m.m[sf[1]].low
    ELSE HoldsInput(m, ret, sf)

\* C3 as stated: every integer and string field of an expanded object is unset
\* exactly when its key is absent or zero, and otherwise holds exactly the
\* input value
C3_NoDefaultExactValue ==
    (pc = "called" /\ call.fn \in ExpandFunctions /\ call.arg.t = "map") =>
        \A sf \in ScalarFields(call.fn) :
            IF AbsentOrZero(call.arg, sf[1]) THEN Unset(call.ret, sf)
            ELSE HoldsInput(call.arg, call.ret, sf)

\* C3 amended: every integer and string field of an expanded object is unset
\* exactly when its key is absent or zero; otherwise a string field holds the
\* input string and an integer field holds int32(input), which is the input
\* itself whenever the input fits in 32 bits
C3_NoDefaultInt32Value ==
    (pc = "called" /\ call.fn \in ExpandFunctions /\ call.arg.t = "map") =>
        \A sf \in ScalarFields(call.fn) :
            IF AbsentOrZero(call.arg, sf[1]) THEN Unset(call.ret, sf)
            ELSE /\ HoldsConverted(call.arg, call.ret, sf)
                 /\ (sf[3] = "int" /\ call.arg.m[sf[1]].wrap = 0
                        => HoldsInput(call.arg, call.ret, sf))

\* a DynamoDB block was expanded with a zero batch size left unset, a non-zero
\* record age copied and a starting position copied
C3_Witness ==
    /\ pc = "called" /\ call.fn = "expandPipeSourceDynamoDBStreamParameters"
    /\ call.arg.t = "map"
    /\ "batch_size" \in DOMAIN call.arg.m /\ call.arg.m.batch_size = GoInt(0, 0)
    /\ call.ret.BatchSize = Nil
    /\ call.ret.MaximumRecordAgeInSeconds = Ptr(60)
    /\ call.ret.StartingPosition = sLATEST

\* a value of a flatten result that is nil or empty
Empty(v) ==
    \/ v \in {Nil, NilMap, NilList}
    \/ v.t = "string" /\ v.s = <<>>
    \/ v.t = "list" /\ Len(v.e) = 0

\* every key of the node, at every nesting level, maps to a value that is
\* neither nil nor empty
RECURSIVE NoEmptyValues(_)
NoEmptyValues(v) ==
    CASE v.t = "map" -> \A k \in DOMAIN v.m : ~Empty(v.m[k]) /\ NoEmptyValues(v.m[k])
      [] v.t = "list" -> \A i \in 1..Len(v.e) : NoEmptyValues(v.e[i])
      [] OTHER -> TRUE

\* C4: every key of a flatten result maps, at every nesting level, to a value
\* that is neither nil nor empty, whatever the typed object
C4_FlattenEmitsNoEmptyValue ==
    /\ pc \in {"flattened", "roundtrip"} => NoEmptyValues(tfState)
    /\ (pc = "called" /\ call.fn \in FlattenFunctions) => NoEmptyValues(call.ret)

\* C5: every flatten function returns a nil result, and does not panic, when
\* its typed object is nil
C5_FlattenNilIsNil ==
    /\ (pc = "called" /\ call.fn \in FlattenFunctions /\ call.arg = Nil)
          => call.ret \in {NilMap, NilList}
    /\ (pc = "flattened" /\ apiObject = Nil) => tfState = NilMap

\* flattenFilterCriteria was called with a nil object and returned a nil map
C5_Witness ==
    /\ pc = "called" /\ call.fn = "flattenFilterCriteria"
    /\ call.arg = Nil /\ call.ret = NilMap

\* the variants that are set in the configuration
SetVariants(cfg) == {k \in VariantKeys : IsSet(cfg, k)}

\* C6: each variant's ConflictsWith list names exactly the other six variants
\* by their schema keys, so validation reports a conflict for every
\* configuration in which two or more variants are set
C6_ConflictsCompleteSymmetric ==
    /\ \A k \in VariantKeys : ConflictsWith[k] = {Addr(o) : o \in VariantKeys \ {k}}
    /\ (pc = "validated" /\ Cardinality(SetVariants(tfMap)) >= 2)
          => \A k \in SetVariants(tfMap) : k \in diags.conflicts

\* validation has reported the conflict of a queue variant and a broker variant
C6_Witness ==
    /\ pc = "validated"
    /\ SetVariants(tfMap) = {"rabbit_mq_broker", "sqs_queue_parameters"}
    /\ diags.conflicts = {"rabbit_mq_broker", "sqs_queue_parameters"}

\* C7 as stated: a configuration that satisfies Required/Optional, MaxItems and
\* ConflictsWith has exactly one of the seven variants set
C7_ExactlyOneVariant ==
    (pc = "validated" /\ tfMap.t = "map" /\ diags = NoDiags)
        => Cardinality(SetVariants(tfMap)) = 1

\* C7 amended: a configuration that satisfies Required/Optional, MaxItems and
\* ConflictsWith has at most one of the seven variants set (none is accepted)
C7_AtMostOneVariant ==
    (pc = "validated" /\ tfMap.t = "map" /\ diags = NoDiags)
        => Cardinality(SetVariants(tfMap)) <= 1

\* validation has accepted a configuration with one variant and filter criteria
C7_Witness ==
    /\ pc = "validated" /\ diags = NoDiags /\ tfMap.t = "map"
    /\ SetVariants(tfMap) = {"kinesis_stream_parameters"}
    /\ IsSet(tfMap, "filter_criteria")

\* the fields of a typed object that hold a source variant
SetVariantFields(a) == {k \in VariantKeys : a[FieldOfKey[k]] # Nil}

\* C8: expand of a node with several variant keys populated returns an object
\* with the typed field of every one of them set, and flatten of a typed object
\* with several variants set emits the key of every one of them
C8_CoPresenceKept ==
    /\ (pc = "expanded" /\ Cardinality({k \in VariantKeys : KeyPopulated(tfMap, k)}) >= 2)
          => /\ apiObject # Nil
             /\ \A k \in VariantKeys : KeyPopulated(tfMap, k) => apiObject[FieldOfKey[k]] # Nil
    /\ (pc = "flattened" /\ apiObject # Nil /\ tfState # Panic
          /\ Cardinality(SetVariantFields(apiObject)) >= 2)
          => \A k \in SetVariantFields(apiObject) : k \in DOMAIN tfState.m

\* the expand functions of the blocks that hold a batch_size
BatchSizeExpanders ==
    {"expandPipeSourceActiveMQBrokerParameters", "expandPipeSourceDynamoDBStreamParameters",
     "expandPipeSourceKinesisStreamParameters",
     "expandPipeSourceManagedStreamingKafkaParameters", "expandPipeSourceSqsQueueParameters"}

\* an expand function was called with a non-zero integer batch_size
BatchSizeExpanded ==
    /\ pc = "called" /\ call.fn \in BatchSizeExpanders /\ call.arg.t = "map"
    /\ "batch_size" \in DOMAIN call.arg.m
    /\ call.arg.m.batch_size.t = "int"
    /\ call.arg.m.batch_size # GoInt(0, 0)

\* the batch_size validator of every variant accepts exactly 1..10000
BatchSizeValidated ==
    (pc = "called" /\ call.fn = "ValidateFunc" /\ call.arg.field = "batch_size")
        => (call.ret.ok <=> /\ call.arg.v.wrap = 0
                            /\ call.arg.v.low >= 1 /\ call.arg.v.low <= 10000)

\* C9 as stated: the batch_size validator of each of the seven variants accepts
\* exactly 1..10000, and expand copies any non-zero batch_size, in or out of
\* that range, to the typed object unchanged
C9_BatchSizeCopiedUnchanged ==
    /\ BatchSizeValidated
    /\ BatchSizeExpanded
          => /\ call.ret.BatchSize # Nil
             /\ call.arg.m.batch_size.wrap = 0
             /\ call.ret.BatchSize.ptr = call.arg.m.batch_size.low

\* C9 amended: the batch_size validator of each of the seven variants accepts
\* exactly 1..10000, and expand signals no error and copies any non-zero
\* batch_size that fits in 32 bits, in or out of 1..10000, unchanged; a larger
\* one is cut to its low 32 bits
C9_BatchSizeCopiedAsInt32 ==
    /\ BatchSizeValidated
    /\ BatchSizeExpanded
          => /\ call.ret.BatchSize # Nil
             /\ call.ret.BatchSize.ptr = call.arg.m.batch_size.low

\* a batch size above the validated range was expanded and copied as it is
C9_Witness ==
    /\ BatchSizeExpanded
    /\ call.fn = "expandPipeSourceSqsQueueParameters"
    /\ call.arg.m.batch_size = GoInt(0, 10001)
    /\ call.ret.BatchSize = Ptr(10001)

\* the kinesis block was expanded with a non-empty timestamp text that is not
\* RFC 3339
InvalidTimestampExpanded ==
    /\ pc = "called" /\ call.fn = "expandPipeSourceKinesisStreamParameters"
    /\ call.arg.t = "map"
    /\ "starting_position_timestamp" \in DOMAIN call.arg.m
    /\ call.arg.m.starting_position_timestamp.t = "string"
    /\ call.arg.m.starting_position_timestamp.s \in InvalidTimestamps

\* C10: for a non-empty timestamp text that is not RFC 3339, expand of the
\* kinesis block returns an object whose StartingPositionTimestamp is set to
\* the zero time, and whose other fields are those of the same block with a
\* valid timestamp
C10_BadTimestampIsZeroTime ==
    InvalidTimestampExpanded =>
        /\ call.ret # Nil
        /\ call.ret.StartingPositionTimestamp = Ptr(ZeroTime)
        /\ [call.ret EXCEPT !.StartingPositionTimestamp = Nil]
             = [expandPipeSourceKinesisStreamParameters(
                    GoMap([call.arg.m EXCEPT !.starting_position_timestamp =
                               Str(TsText(1, 2, "T", <<>>, <<"Z">>))]))
                  EXCEPT !.StartingPositionTimestamp = Nil]

\* a fully populated kinesis block with the timestamp "now" was expanded
C10_Witness ==
    /\ InvalidTimestampExpanded
    /\ call.arg.m.starting_position_timestamp.s = <<"n", "o", "w">>
    /\ call.ret.BatchSize = Ptr(100)
    /\ call.ret.StartingPositionTimestamp = Ptr(ZeroTime)

\* the text a credentials map holds under a key, <<>> when it holds none
CredentialText(m, k) ==
    IF k \in DOMAIN m.m /\ m.m[k].t = "string" THEN m.m[k].s ELSE <<>>

\* a call of expandMSKAccessCredentials on a credentials map
MSKCredentialsExpanded ==
    pc = "called" /\ call.fn = "expandMSKAccessCredentials" /\ call.arg.t = "map"

\* C11: expandMSKAccessCredentials returns the client-certificate member with
\* the configured text whenever client_certificate_tls_auth is non-empty (a
\* configured sasl_scram_512_auth then appears nowhere in the result),
\* otherwise the SASL/SCRAM-512 member when sasl_scram_512_auth is non-empty,
\* otherwise nil; the result is never more than one member
C11_FirstNonEmptyCredential ==
    MSKCredentialsExpanded =>
        LET cert == CredentialText(call.arg, "client_certificate_tls_auth")
            sasl == CredentialText(call.arg, "sasl_scram_512_auth")
        IN  /\ cert # <<>> => call.ret = ClientCertificateMember(cert)
            /\ (cert = <<>> /\ sasl # <<>>) => call.ret = SaslScram512Member(sasl)
            /\ (cert = <<>> /\ sasl = <<>>) => call.ret = Nil
            /\ call.ret # Nil => DOMAIN call.ret = {"member", "Value"}

\* both credentials are configured and the client certificate is returned
C11_Witness ==
    /\ MSKCredentialsExpanded
    /\ CredentialText(call.arg, "client_certificate_tls_auth") = sCert
    /\ CredentialText(call.arg, "sasl_scram_512_auth") = sSasl
    /\ call.ret = ClientCertificateMember(sCert)

\* the credential attributes the schema declares in a credentials block
CredentialNames ==
    [managed_streaming_kafka_parameters |->
        {"client_certificate_tls_auth", "sasl_scram_512_auth"},
     self_managed_kafka |->
        {"basic_auth", "client_certificate_tls_auth", "sasl_scram_256_auth",
         "sasl_scram_512_auth"}]

\* the validated configuration is the fully populated block of the variant
\* but for its credentials block, which is a map whose texts are not empty
CredentialsVaried(k) ==
    /\ pc = "validated" /\ tfMap.t = "map" /\ DOMAIN tfMap.m = {k}
    /\ Len(ListElems(tfMap.m[k])) = 1 /\ BlockAt(tfMap, k).t = "map"
    /\ LET b == BlockAt(tfMap, k) IN
       /\ DOMAIN b.m = DOMAIN FullBlock[k]
       /\ \A f \in DOMAIN b.m \ {"credentials"} : b.m[f] = FullBlock[k][f]
       /\ Len(ListElems(b.m.credentials)) = 1 /\ BlockAt(b, "credentials").t = "map"
       /\ \A f \in DOMAIN BlockAt(b, "credentials").m :
             CredentialText(BlockAt(b, "credentials"), f) # <<>>

\* the credential attributes that such a block sets
CredentialsSet(k) ==
    {f \in CredentialNames[k] : IsSet(BlockAt(BlockAt(tfMap, k), "credentials"), f)}

\* C12: validation accepts a credentials block of managed_streaming_kafka_parameters
\* or of self_managed_kafka exactly when it sets one credential attribute: a
\* block with two or with none is rejected, a block with any single one is
\* accepted
C12_ExactlyOneCredentialAdmitted ==
    \A k \in DOMAIN CredentialNames :
        CredentialsVaried(k) => (diags = NoDiags <=> Cardinality(CredentialsSet(k)) = 1)

\* the configuration holds only a filter_criteria block, whose filter list has
\* at least one entry and only entries that are maps with a pattern text
FiltersConfigured ==
    /\ tfMap.t = "map" /\ DOMAIN tfMap.m = {"filter_criteria"}
    /\ Len(ListElems(tfMap.m.filter_criteria)) = 1
    /\ BlockAt(tfMap, "filter_criteria").t = "map"
    /\ LET l == ListElems(Collection(tfMap, "filter")) IN
       /\ Len(l) >= 1
       /\ \A i \in 1..Len(l) : /\ l[i].t = "map" /\ DOMAIN l[i].m = {"pattern"}
                               /\ l[i].m.pattern.t = "string"

\* the configured filter entries
ConfiguredFilters == ListElems(Collection(tfMap, "filter"))

\* the length of each configured pattern is within 1..4096
PatternLengthsValid ==
    \A i \in 1..Len(ConfiguredFilters) :
        /\ Len(ConfiguredFilters[i].m.pattern.s) >= 1
        /\ Len(ConfiguredFilters[i].m.pattern.s) <= 4096

IntValidated(field) ==
    pc = "called" /\ call.fn = "ValidateFunc" /\ call.arg.field = field

\* the variants whose block declares the integer attribute
Declaring(field) == {k \in VariantKeys : field \in DOMAIN IntValidators[k]}

\* the integer a validator was called with lies within min..max
Within(min, max) == call.arg.v.wrap = 0 /\ call.arg.v.low >= min /\ call.arg.v.low <= max

\* C14: maximum_record_age_in_seconds is an attribute of the two stream
\* variants, and in both its validator accepts v exactly when v = -1 or
\* 60 <= v <= 604800
C14_RecordAgeAccepted ==
    IntValidated("maximum_record_age_in_seconds") =>
        /\ Declaring("maximum_record_age_in_seconds")
             = {"dynamodb_stream_parameters", "kinesis_stream_parameters"}
        /\ call.ret.ok <=> (Within(-1, -1) \/ Within(60, 604800))

\* the validator of the kinesis variant accepts -1
C14_Witness ==
    /\ IntValidated("maximum_record_age_in_seconds")
    /\ call.arg.variant = "kinesis_stream_parameters"
    /\ call.arg.v = GoInt(0, -1) /\ call.ret.ok

\* C15: maximum_batching_window_in_seconds is accepted exactly when
\* 0 <= v <= 300 in each of the seven variants, maximum_retry_attempts exactly
\* when -1 <= v <= 10000 and parallelization_factor exactly when 1 <= v <= 10
\* in both stream variants, and every variant that declares an integer
\* attribute of the same name accepts the same values
C15_SharedIntegerBounds ==
    /\ IntValidated("maximum_batching_window_in_seconds") =>
          /\ Declaring("maximum_batching_window_in_seconds") = VariantKeys
          /\ call.ret.ok <=> Within(0, 300)
    /\ IntValidated("maximum_retry_attempts") =>
          /\ Declaring("maximum_retry_attempts")
               = {"dynamodb_stream_parameters", "kinesis_stream_parameters"}
          /\ call.ret.ok <=> Within(-1, 10000)
    /\ IntValidated("parallelization_factor") =>
          /\ Declaring("parallelization_factor")
               = {"dynamodb_stream_parameters", "kinesis_stream_parameters"}
          /\ call.ret.ok <=> Within(1, 10)
    /\ (pc = "called" /\ call.fn = "ValidateFunc" /\ call.arg.v.t = "int") =>
          \A k \in Declaring(call.arg.field) :
              ValidateInt(k, call.arg.field, call.arg.v) = call.ret.ok

\* the validator of the sqs variant accepts a window of 300 seconds
C15_Witness ==
    /\ IntValidated("maximum_batching_window_in_seconds")
    /\ call.arg.variant = "sqs_queue_parameters"
    /\ call.arg.v = GoInt(0, 300) /\ call.ret.ok

\* a call of the validator of a topic name whose first character is a letter,
\* a digit, a hyphen or an underscore and whose other characters are these or
\* a dot
TopicNameValidated ==
    /\ pc = "called" /\ call.fn = "ValidateFunc"
    /\ call.arg.field \in {"topic_name", "topic"}
    /\ AllIn(call.arg.v.s, AlphaNum \cup {"-", "_", "."})
    /\ (Len(call.arg.v.s) > 0 => call.arg.v.s[1] # ".")

\* C16: the validator of topic_name and of topic accepts a name of the allowed
\* characters exactly when its length is within 1..249: every length from 1,
\* the one-character name included, is accepted, lengths 0 and 250 are rejected
C16_TopicNameLengths ==
    TopicNameValidated =>
        (call.ret.ok <=> (Len(call.arg.v.s) >= 1 /\ Len(call.arg.v.s) <= 249))

\* the validated configuration is the fully populated self_managed_kafka block
\* but for its servers set and the two sets of its vpc block, whose elements
\* their validators accept
KafkaCollectionsVaried ==
    /\ pc = "validated" /\ tfMap.t = "map" /\ DOMAIN tfMap.m = {"self_managed_kafka"}
    /\ Len(ListElems(tfMap.m.self_managed_kafka)) = 1
    /\ BlockAt(tfMap, "self_managed_kafka").t = "map"
    /\ LET b == BlockAt(tfMap, "self_managed_kafka") IN
       /\ DOMAIN b.m = DOMAIN FullBlock.self_managed_kafka
       /\ \A f \in DOMAIN b.m \ {"servers", "vpc"} : b.m[f] = FullBlock.self_managed_kafka[f]
       /\ b.m.servers.t = "set"
       /\ Len(ListElems(b.m.vpc)) = 1 /\ BlockAt(b, "vpc").t = "map"
       /\ DOMAIN BlockAt(b, "vpc").m = {"security_groups", "subnets"}
    /\ diags.values = {}

\* C17: validation of self_managed_kafka accepts a servers set exactly when it
\* has at most 2 entries, the security_groups set of vpc exactly when it has at
\* most 5 and the subnets set of vpc exactly when it has at most 16
C17_KafkaCollectionCaps ==
    KafkaCollectionsVaried =>
        /\ "servers" \in diags.max_items <=> Size(Collection(tfMap, "servers")) > 2
        /\ "security_groups" \in diags.max_items
             <=> Size(Collection(tfMap, "security_groups")) > 5
        /\ "subnets" \in diags.max_items <=> Size(Collection(tfMap, "subnets")) > 16
        /\ diags = NoDiags <=> /\ Size(Collection(tfMap, "servers")) <= 2
                               /\ Size(Collection(tfMap, "security_groups")) <= 5
                               /\ Size(Collection(tfMap, "subnets")) <= 16

\* sixteen subnets are accepted
C17_Witness ==
    /\ KafkaCollectionsVaried
    /\ Size(Collection(tfMap, "subnets")) = 16
    /\ diags = NoDiags

BlockMissing(m, k) ==
    \/ k \notin DOMAIN m.m
    \/ m.m[k] = NilList
    \/ m.m[k].t = "list" /\ (m.m[k].e = <<>> \/ m.m[k].e[1] = Nil)

\* the nested block of the blocks that have one, and the typed field it maps to
NestedOf ==
    [expandPipeSourceActiveMQBrokerParameters |-> <<"credentials", "Credentials">>,
     expandPipeSourceManagedStreamingKafkaParameters |-> <<"credentials", "Credentials">>,
     expandPipeSourceDynamoDBStreamParameters |-> <<"dead_letter_config", "DeadLetterConfig">>,
     expandPipeSourceKinesisStreamParameters |-> <<"dead_letter_config", "DeadLetterConfig">>,
     flattenPipeSourceActiveMQBrokerParameters |-> <<"credentials", "Credentials">>,
     flattenPipeSourceManagedStreamingKafkaParameters |-> <<"credentials", "Credentials">>,
     flattenPipeSourceDynamoDBStreamParameters |-> <<"dead_letter_config", "DeadLetterConfig">>,
     flattenPipeSourceKinesisStreamParameters |-> <<"dead_letter_config", "DeadLetterConfig">>]

\* C19: an absent nested block is absent on the other side and no error: when
\* the key of a variant block, of filter_criteria, of dead_letter_config or of
\* credentials is missing, an empty list or a list whose first element is nil,
\* expand returns an object whose field for it is nil; when that field of a
\* typed object is nil, flatten returns a map without the key
C19_AbsencePropagates ==
    /\ (pc = "called" /\ call.fn = "expandPipeSourceParameters" /\ call.arg.t = "map") =>
          /\ call.ret \notin {Nil, Panic}
          /\ \A k \in TopKeys : BlockMissing(call.arg, k) => call.ret[FieldOfKey[k]] = Nil
    /\ (pc = "called" /\ call.fn \in DOMAIN NestedOf /\ call.fn \in ExpandFunctions
          /\ call.arg.t = "map" /\ BlockMissing(call.arg, NestedOf[call.fn][1])) =>
          /\ call.ret \notin {Nil, Panic}
          /\ call.ret[NestedOf[call.fn][2]] = Nil
    /\ (pc = "called" /\ call.fn = "flattenPipeSourceParameters"
          /\ call.arg # Nil /\ call.ret # Panic) =>
          \A k \in TopKeys : call.arg[FieldOfKey[k]] = Nil => k \notin DOMAIN call.ret.m
    /\ (pc = "called" /\ call.fn \in DOMAIN NestedOf /\ call.fn \in FlattenFunctions
          /\ call.arg # Nil /\ call.arg[NestedOf[call.fn][2]] = Nil) =>
          /\ call.ret.t = "map"
          /\ NestedOf[call.fn][1] \notin DOMAIN call.ret.m

\* a dynamodb block whose dead_letter_config is a list of one nil element is
\* expanded: the other attributes are mapped, the dead letter field is nil
C19_Witness ==
    /\ pc = "called" /\ call.fn = "expandPipeSourceDynamoDBStreamParameters"
    /\ call.arg.t = "map" /\ "dead_letter_config" \in DOMAIN call.arg.m
    /\ call.arg.m.dead_letter_config = GoList(<<Nil>>)
    /\ call.ret.DeadLetterConfig = Nil
    /\ call.ret.BatchSize = Ptr(100)

\* the pattern text of a filter map, the empty text when it has none
PatternText(m) ==
    IF "pattern" \in DOMAIN m.m /\ m.m.pattern.t = "string" THEN m.m.pattern.s ELSE <<>>

\* aws.ToString of the Pattern of a types.Filter
PatternOfFilter(f) == IF f.Pattern = Nil THEN <<>> ELSE f.Pattern.ptr

\* the number of filters of a []types.Filter
SliceLen(a) == IF a = Nil THEN 0 ELSE Len(a.elems)

\* C20: the mappers keep the filters in order: for a filter list whose entries
\* are all maps expandFilters returns as many filters as entries, the i-th
\* with the pattern text of the i-th entry (the nil Pattern for an entry with
\* an empty or no pattern), and flattenFilters returns as many maps as
\* filters, the i-th with the pattern text of the i-th filter
C20_FilterOrderKept ==
    /\ (pc = "called" /\ call.fn = "expandFilters"
          /\ \A i \in 1..Len(call.arg.e) : call.arg.e[i].t = "map") =>
          /\ SliceLen(call.ret) = Len(call.arg.e)
          /\ \A i \in 1..Len(call.arg.e) :
                PatternOfFilter(call.ret.elems[i]) = PatternText(call.arg.e[i])
    /\ (pc = "called" /\ call.fn = "flattenFilters") =>
          /\ Len(ListElems(call.ret)) = SliceLen(call.arg)
          /\ \A i \in 1..SliceLen(call.arg) :
                PatternText(call.ret.e[i]) = PatternOfFilter(call.arg.elems[i])

\* six filters with patterns of their own are expanded in their order
C20_Witness ==
    /\ pc = "called" /\ call.fn = "expandFilters"
    /\ call.arg = GoList([i \in 1..6 |-> NumberedFilter(i)])
    /\ call.ret = [elems |-> [i \in 1..6 |-> [Pattern |-> Ptr(<<"p", DigitChar(i)>>)]]]

\* a configuration value with every list wrapper cut to its first element; the
\* filter list of filter_criteria is no wrapper and is kept
RECURSIVE FirstElements(_)
FirstElements(v) ==
    CASE v.t = "map" -> GoMap([k \in DOMAIN v.m |->
                                 IF k = "filter" THEN v.m[k] ELSE FirstElements(v.m[k])])
      [] v.t = "list" -> IF Len(v.e) = 0 THEN v ELSE GoList(<<FirstElements(v.e[1])>>)
      [] OTHER -> v

\* some list wrapper of the value has more than one element
RECURSIVE HasLongWrapper(_)
HasLongWrapper(v) ==
    CASE v.t = "map" -> \E k \in DOMAIN v.m \ {"filter"} : HasLongWrapper(v.m[k])
      [] v.t = "list" -> Len(v.e) > 1 \/ (Len(v.e) = 1 /\ HasLongWrapper(v.e[1]))
      [] OTHER -> FALSE

\* every list a flattened value holds, but the filter list, has one element
RECURSIVE WrappersOfOne(_)
WrappersOfOne(v) ==
    CASE v.t = "map" -> \A k \in DOMAIN v.m \ {"filter"} : WrappersOfOne(v.m[k])
      [] v.t = "list" -> Len(v.e) = 1 /\ WrappersOfOne(v.e[1])
      [] v.t = "nillist" -> FALSE
      [] OTHER -> TRUE

\* the expand functions that take a block with list wrappers, and the flatten
\* functions that emit one
WrapperExpanders ==
    {"expandPipeSourceParameters", "expandPipeSourceActiveMQBrokerParameters",
     "expandPipeSourceDynamoDBStreamParameters", "expandPipeSourceKinesisStreamParameters",
     "expandPipeSourceManagedStreamingKafkaParameters"}

WrapperFlatteners ==
    {"flattenPipeSourceParameters", "flattenPipeSourceActiveMQBrokerParameters",
     "flattenPipeSourceDynamoDBStreamParameters", "flattenPipeSourceKinesisStreamParameters",
     "flattenPipeSourceManagedStreamingKafkaParameters"}

\* C21: every nested block that flatten emits (a variant block, filter_criteria,
\* credentials, dead_letter_config) is a list of exactly one element, the
\* MaxItems of its key, and expand reads only element 0 of such a list: its
\* result is the one for the lists cut to their first element
C21_WrappersOfLengthOne ==
    /\ (pc = "called" /\ call.fn \in WrapperFlatteners /\ call.ret.t = "map") =>
          /\ WrappersOfOne(call.ret)
          /\ call.fn = "flattenPipeSourceParameters" =>
                \A k \in DOMAIN call.ret.m : Len(ListElems(call.ret.m[k])) = TopMaxItems[k]
    /\ (pc = "called" /\ call.fn \in WrapperExpanders /\ call.arg.t = "map") =>
          call.ret = Apply(call.fn, FirstElements(call.arg))

\* a block whose dead_letter_config list has two elements is expanded with the
\* ARN of the first
C21_Witness ==
    /\ pc = "called" /\ call.fn = "expandPipeSourceDynamoDBStreamParameters"
    /\ call.arg.t = "map" /\ HasLongWrapper(call.arg)
    /\ call.ret.DeadLetterConfig = [Arn |-> Ptr(sArn)]

\* the keys of the source_parameters block that the mappers handle
HandledKeys ==
    {"activemq_broker_parameters", "dynamodb_stream_parameters", "filter_criteria",
     "kinesis_stream_parameters", "managed_streaming_kafka_parameters",
     "sqs_queue_parameters"}

\* a whole-second RFC 3339 text: it parses and has no fraction
WholeSecondRFC3339(s) == ParsesRFC3339(s) /\ s[20] # "."

\* every present field of the value is non-zero: an integer is not 0 and fits
\* in 32 bits, a text is not empty, a block wrapper has one element that is a
\* map, the filter list has entries that are maps
RECURSIVE NonZeroFields(_)
NonZeroFields(v) ==
    CASE v.t = "int" -> v.wrap = 0 /\ v.low # 0
      [] v.t = "string" -> v.s # <<>>
      [] v.t = "list" -> /\ Len(v.e) >= 1
                         /\ \A i \in 1..Len(v.e) : v.e[i].t = "map" /\ NonZeroFields(v.e[i])
      [] v.t = "map" -> \A k \in DOMAIN v.m :
                           /\ NonZeroFields(v.m[k])
                           /\ (v.m[k].t = "list" /\ k # "filter") => Len(v.m[k].e) = 1
                           /\ k = "credentials" =>
                                Cardinality(DOMAIN v.m[k].e[1].m) = 1
                           /\ k = "starting_position_timestamp" =>
                                WholeSecondRFC3339(v.m[k].s)
      [] OTHER -> FALSE

\* a configuration within the restriction of C22 that has been expanded and
\* flattened again
RestrictedRoundTrip ==
    /\ pc = "roundtrip" /\ tfMap.t = "map"
    /\ DOMAIN tfMap.m \subseteq HandledKeys
    /\ NonZeroFields(tfMap)

\* C22: for a configuration of handled keys only whose present fields are all
\* non-zero, whose credentials block sets one credential and whose timestamp
\* is a whole-second RFC 3339 text, flatten(expand(x)) has the keys of x with
\* equal values at every level (integers compared by value, enumerations by
\* their text)
C22_RestrictedRoundTrip ==
    RestrictedRoundTrip => Canon(tfState) = tfMap

\* the starting_position_timestamp of the kinesis block of a node
KinesisTimestamp(cfg) ==
    Lookup(BlockAt(cfg, "kinesis_stream_parameters"), "starting_position_timestamp")

\* C23: for every kinesis block whose starting_position_timestamp is a valid
\* RFC 3339 text s, with or without fractional seconds and whatever its
\* offset, the block that flatten returns for the expanded block carries
\* starting_position_timestamp equal to s
C23_TimestampRoundTrip ==
    (pc = "roundtrip" /\ KinesisTimestamp(tfMap).t = "string"
        /\ ParsesRFC3339(KinesisTimestamp(tfMap).s)) =>
        Canon(KinesisTimestamp(tfState)) = KinesisTimestamp(tfMap)

\* ---------------------------------------------------------------------------
\* C24

\* the keys the variant mappers read with the assertion .(int)
IntKeys ==
    {"batch_size", "maximum_batching_window_in_seconds", "maximum_record_age_in_seconds",
     "maximum_retry_attempts", "parallelization_factor"}

\* the mappers of the variant blocks
VariantExpanders ==
    {"expandPipeSourceActiveMQBrokerParameters", "expandPipeSourceDynamoDBStreamParameters",
     "expandPipeSourceKinesisStreamParameters",
     "expandPipeSourceManagedStreamingKafkaParameters",
     "expandPipeSourceSqsQueueParameters"}

\* the node m with the key k left out
Without(m, k) == GoMap([x \in DOMAIN m.m \ {k} |-> m.m[x]])

\* the configuration cfg whose block under key v has the key k left out
WithoutIn(cfg, v, k) ==
    GoMap([cfg.m EXCEPT ![v] = GoList(<<Without(Block0(cfg, v), k)>> \o Tail(cfg.m[v].e))])

\* the integer keys of the node m that hold an explicit 0
ZeroKeys(m) == {k \in IntKeys \cap DOMAIN m.m : m.m[k] = GoInt(0, 0)}

\* C24: the expand mappers cannot tell an explicit zero from absence: a node
\* holding the integer 0 under an integer key expands to the same typed object
\* as the node without that key, in a call of a variant mapper and in the
\* expansion of a whole configuration; maximum_retry_attempts = 0 and
\* maximum_batching_window_in_seconds = 0 are accepted by validation and the
\* typed field stays unset
C24_ZeroIsAbsence ==
    /\ (pc = "called" /\ call.fn \in VariantExpanders /\ call.arg.t = "map") =>
          \A k \in ZeroKeys(call.arg) :
              /\ call.ret = Apply(call.fn, Without(call.arg, k))
              /\ \A sf \in ScalarFields(call.fn) : sf[1] = k => call.ret[sf[2]] = Nil
    /\ (pc = "expanded" /\ tfMap.t = "map") =>
          \A v \in VariantKeys :
              HasBlock(tfMap, v) /\ Block0(tfMap, v).t = "map" =>
                  \A k \in ZeroKeys(Block0(tfMap, v)) :
                      apiObject = expandPipeSourceParameters(WithoutIn(tfMap, v, k))
    /\ (pc = "called" /\ call.fn = "ValidateFunc" /\ call.arg.v = GoInt(0, 0)
          /\ call.arg.field \in {"maximum_retry_attempts",
                                 "maximum_batching_window_in_seconds"}) =>
          call.ret.ok

C24_Witness ==
    /\ pc = "called" /\ call.fn = "expandPipeSourceDynamoDBStreamParameters"
    /\ call.arg.t = "map"
    /\ ZeroKeys(call.arg) = {"maximum_retry_attempts"}
    /\ call.ret.MaximumRetryAttempts = Nil
    /\ call.ret.MaximumBatchingWindowInSeconds = Ptr(20)
    /\ call.ret = Apply(call.fn, Without(call.arg, "maximum_retry_attempts"))
    /\ ValidateInt("dynamodb_stream_parameters", "maximum_retry_attempts", GoInt(0, 0))

\* ---------------------------------------------------------------------------
\* C25

\* a call of the DiffSuppressFunc of the attribute field
DiffCall(field) ==
    pc = "called" /\ call.fn = "DiffSuppressFunc" /\ call.arg.field = field

\* C25: diff suppression only hides service defaults: for batch_size the diff
\* is suppressed exactly when new is "" or "0" and old is the service default,
\* "10" for sqs_queue_parameters and "100" for the other six variants; for
\* maximum_batching_window_in_seconds exactly when new is "" or "0" and old is
\* "0"; a new value that is a non-zero number is never suppressed
C25_SuppressOnlyDefaults ==
    /\ DiffCall("batch_size") =>
          (call.ret.suppress <=>
              /\ call.arg.new \in {<<>>, <<"0">>}
              /\ \/ call.arg.variant = "sqs_queue_parameters" /\ call.arg.old = <<"1", "0">>
                 \/ call.arg.variant # "sqs_queue_parameters" /\ call.arg.old = <<"1", "0", "0">>)
    /\ DiffCall("maximum_batching_window_in_seconds") =>
          (call.ret.suppress <=>
              call.arg.new \in {<<>>, <<"0">>} /\ call.arg.old = <<"0">>)
    /\ (pc = "called" /\ call.fn = "DiffSuppressFunc"
          /\ AllDigits(call.arg.new) /\ call.arg.new # <<>> /\ Atoi(call.arg.new) # 0) =>
          ~call.ret.suppress

C25_Witness ==
    /\ DiffCall("batch_size")
    /\ call.arg.variant = "sqs_queue_parameters"
    /\ call.arg.old = <<"1", "0">> /\ call.arg.new = <<"0">>
    /\ call.ret.suppress

\* ---------------------------------------------------------------------------
\* C26

\* C26: feeding flatten's output back into expand reproduces the typed object:
\* for every typed object a that expandPipeSourceParameters returns,
\* expandPipeSourceParameters(flattenPipeSourceParameters(a)) = a, so every
\* value flatten stores has a dynamic type that expand's assertion accepts
C26_ExpandOfFlatten ==
    pc = "roundtrip" => expandPipeSourceParameters(tfState) = apiObject

\* ---------------------------------------------------------------------------
\* C27

\* C27: flatten is total over the credential union values: for every typed
\* object, one whose Credentials holds an unexpected union member included,
\* flattenPipeSourceActiveMQBrokerParameters and
\* flattenPipeSourceManagedStreamingKafkaParameters complete and return a map
C27_FlattenTotalOverCredentials ==
    (pc = "called"
        /\ call.fn \in {"flattenPipeSourceActiveMQBrokerParameters",
                        "flattenPipeSourceManagedStreamingKafkaParameters"}
        /\ call.arg # Nil) =>
        call.ret # Panic /\ call.ret.t = "map"

\* ---------------------------------------------------------------------------
\* C28

\* C28: expandUpdatePipeSourceParameters ignores the content of its input: it
\* returns nil for the nil map, and for every non-nil map an update object with
\* no field set, the same object as for every other non-nil configuration node,
\* so no configured change is carried into an update request
C28_UpdateIgnoresInput ==
    (pc = "called" /\ call.fn = "expandUpdatePipeSourceParameters") =>
        IF call.arg = NilMap
        THEN call.ret = Nil
        ELSE /\ call.ret # Nil
             /\ \A f \in DOMAIN call.ret : call.ret[f] = Nil
             /\ \A y \in ConfigNodes \ {NilMap} :
                    expandUpdatePipeSourceParameters(y) = call.ret

C28_Witness ==
    /\ pc = "called" /\ call.fn = "expandUpdatePipeSourceParameters"
    /\ call.arg.t = "map"
    /\ DOMAIN call.arg.m = TopKeys
    /\ expandPipeSourceParameters(call.arg).SqsQueueParameters # Nil
    /\ call.ret # Nil
    /\ call.ret.SqsQueueParameters = Nil /\ call.ret.FilterCriteria = Nil

====
